---- MODULE Spec2Model ----
(***************************************************************************)
(* Model of the Sig_Test_Highlighter export handler (app.py), of the       *)
(* cell-address parser, the coordinate-file parser, the coordinate mapper  *)
(* and the highlight renderer (data_processor.py), of the grouping of      *)
(* output files by base title (file_manager.py), of run_notebook           *)
(* (notebook_runner.py) and of the page's upload and run controls (app.py).*)
(*                                                                         *)
(* Text is modelled as a sequence of one-character strings so that         *)
(* trimming, case folding, number parsing and regular-expression matching  *)
(* are computed character by character, as Python computes them.           *)
(* A worksheet is a dense grid: a sequence of rows, each a sequence of     *)
(* cell values; an empty cell holds None.                                  *)
(***************************************************************************)
EXTENDS Integers, Sequences, FiniteSets, TLC

VARIABLES
    stem,             \* fpath.stem of the workbook offered for export
    src,              \* content of the source workbook in highlighted_outputs/
    dest,             \* the file at export_files/<export_name>
    pc,               \* position of the "Save filtered copy" handler
    keep_cols,        \* the user's selection handed to the handler
    ws,               \* the worksheet held in memory by the handler
    header_values,    \* app.py: header_values
    normalized_keep,  \* app.py: normalized_keep
    target_row,       \* app.py: target_row (0 stands for None)
    msgs,             \* the st.* messages emitted by the current handler run
    tok,              \* argument of _parse_cell_address_token
    parsed,           \* its result
    csv_file,         \* the coordinate-list file given to _parse_highlight_csv
    csv_pc,           \* position of _parse_highlight_csv
    row_i,            \* index of the next row of df.iterrows()
    results,          \* data_processor.py: results, as a set of (key, row, col)
    excel_name,       \* name of an output workbook
    table_title,      \* the key group_outputs_by_table files it under
    base_key_guess,   \* data_processor.py: base_key_guess
    render_in,        \* the renderer's companion files and header_present
    render_pc,        \* position of build_combined_highlight_html
    red_coords,       \* data_processor.py: red_coords
    green_coords,     \* data_processor.py: green_coords
    red_df_coords,    \* data_processor.py: red_df_coords
    green_df_coords,  \* data_processor.py: green_df_coords
    styles,           \* the style attribute written for each data cell
    out_files,        \* names of the files of highlighted_outputs/
    groups,           \* result of group_outputs_by_table: title -> its files
    run_in,           \* run_notebook: is papermill installed, is on_progress given
    run_pc,           \* position of run_notebook
    progress,         \* the calls of on_progress, in order
    pm_handlers,      \* handlers attached to the "papermill" logger
    executed,         \* the executor chosen and how it ended
    run_result,       \* the (success, message) pair run_notebook returned
    session_path,     \* st.session_state["uploaded_saved_path"]
    uploader,         \* the file held by the st.file_uploader widget
    dirs,             \* item counts of highlighted_outputs/ and export_files/
    run_calls,        \* number of calls of run_notebook in the session
    ui_msgs,          \* messages of the latest script run
    first_export,     \* what the first export of the session saved, and for
                      \* which selection
    exports_run       \* number of exports saved before the current one

vars == <<stem, src, dest, pc, keep_cols, ws, header_values, normalized_keep,
          target_row, msgs, tok, parsed, csv_file, csv_pc, row_i, results,
          excel_name, table_title, base_key_guess, render_in, render_pc,
          red_coords, green_coords, red_df_coords, green_df_coords, styles,
          out_files, groups, run_in, run_pc, progress, pm_handlers, executed,
          run_result, session_path, uploader, dirs, run_calls, ui_msgs,
          first_export, exports_run>>

exportVars == <<stem, src, dest, pc, keep_cols, ws, header_values,
                normalized_keep, target_row, msgs>>

parseVars == <<tok, parsed>>

csvVars == <<csv_file, csv_pc, row_i, results>>

renderVars == <<excel_name, table_title, base_key_guess, render_in, render_pc,
                red_coords, green_coords, red_df_coords, green_df_coords,
                styles>>

groupVars == <<out_files, groups>>

runVars == <<run_in, run_pc, progress, pm_handlers, executed, run_result>>

uiVars == <<session_path, uploader, dirs, run_calls, ui_msgs>>

againVars == <<first_export, exports_run>>

\* _parse_highlight_csv is not running
CsvAtRest ==
    /\ csv_file = [st |-> "absent", columns |-> <<>>, rows |-> <<>>]
    /\ csv_pc = "idle"
    /\ row_i = 0
    /\ results = {}

\* not computed yet
Unset == <<"?">>

\* csv_path is None
NoCsv == [st |-> "none", columns |-> <<>>, rows |-> <<>>]

\* no call of the renderer
NoRender == [excel |-> "absent", red |-> NoCsv, green |-> NoCsv, header_present |-> TRUE]

\* nothing is being rendered or grouped
RenderAtRest ==
    /\ excel_name = <<>>
    /\ table_title = Unset
    /\ base_key_guess = Unset
    /\ render_in = NoRender
    /\ render_pc = "idle"
    /\ red_coords = {}
    /\ green_coords = {}
    /\ red_df_coords = {}
    /\ green_df_coords = {}
    /\ styles = <<>>

\* group_outputs_by_table has not been called
NotGrouped == [t \in {Unset} |-> {}]

\* no directory is being grouped
GroupAtRest ==
    /\ out_files = {}
    /\ groups = NotGrouped

\* no call of run_notebook
NoRun == [papermill |-> FALSE, on_progress |-> FALSE]
NoExecutor == [chosen |-> "none", outcome |-> "none"]
NoResult == [success |-> FALSE, msg |-> "none"]

\* run_notebook is not running
RunAtRest ==
    /\ run_in = NoRun
    /\ run_pc = "idle"
    /\ progress = <<>>
    /\ pm_handlers = 0
    /\ executed = NoExecutor
    /\ run_result = NoResult

\* no export has been saved
NoExport == [keep |-> <<>>, grid |-> <<>>]

\* no earlier export is remembered
AgainAtRest ==
    /\ first_export = NoExport
    /\ exports_run = 0

\* no browser session
UiAtRest ==
    /\ session_path = "no key"
    /\ uploader = "None"
    /\ dirs = [outputs |-> 0, exports |-> 0]
    /\ run_calls = 0
    /\ ui_msgs = {}

----------------------------------------------------------------------------
(* Bounds of the model *)

MaxCols == 4
MaxDataRows == 2
MaxTokLen == 5
MaxCsvRows == 2
MaxWords == 2
PreviewRows == 2
PreviewCols == 2
MaxFiles == 2
MaxRecords == 3
MaxItems == 2
MaxRuns == 2
MaxExports == 2

----------------------------------------------------------------------------
(* Characters and Python's string methods *)

UpperLetters ==
    <<"A","B","C","D","E","F","G","H","I","J","K","L","M",
      "N","O","P","Q","R","S","T","U","V","W","X","Y","Z">>

LowerLetters ==
    <<"a","b","c","d","e","f","g","h","i","j","k","l","m",
      "n","o","p","q","r","s","t","u","v","w","x","y","z">>

DigitChars == <<"0","1","2","3","4","5","6","7","8","9">>

IsUpperCh(c) == \E i \in 1..26 : UpperLetters[i] = c
IsLowerCh(c) == \E i \in 1..26 : LowerLetters[i] = c
IsLetterCh(c) == IsUpperCh(c) \/ IsLowerCh(c)
IsDigitCh(c) == \E i \in 1..10 : DigitChars[i] = c
IsSpaceCh(c) == c = " "

\* value of a digit character
DigitVal(c) == (CHOOSE i \in 1..10 : DigitChars[i] = c) - 1

\* str.lower() / str.upper() on one character
LowerCh(c) ==
    IF IsUpperCh(c) THEN LowerLetters[CHOOSE i \in 1..26 : UpperLetters[i] = c] ELSE c

UpperCh(c) ==
    IF IsLowerCh(c) THEN UpperLetters[CHOOSE i \in 1..26 : LowerLetters[i] = c] ELSE c

PyLower(s) == [i \in 1..Len(s) |-> LowerCh(s[i])]
PyUpper(s) == [i \in 1..Len(s) |-> UpperCh(s[i])]

\* str.strip(): drop leading and trailing whitespace
PyStrip(s) ==
    LET keep == {i \in 1..Len(s) : ~IsSpaceCh(s[i])}
    IN  IF keep = {} THEN <<>>
        ELSE LET lo == CHOOSE i \in keep : \A j \in keep : i <= j
                 hi == CHOOSE i \in keep : \A j \in keep : i >= j
             IN  SubSeq(s, lo, hi)

\* str.replace(a, b) for single characters
PyReplaceCh(s, a, b) == [i \in 1..Len(s) |-> IF s[i] = a THEN b ELSE s[i]]

\* s[i:] starts with p, ignoring case (re.IGNORECASE on a literal)
MatchesAtCI(s, i, p) ==
    /\ i + Len(p) - 1 <= Len(s)
    /\ \A k \in 1..Len(p) : LowerCh(s[i + k - 1]) = LowerCh(p[k])

\* int(digits) for a non-empty sequence of digit characters
RECURSIVE DigitsToInt(_)
DigitsToInt(ds) ==
    IF ds = <<>> THEN 0
    ELSE 10 * DigitsToInt(SubSeq(ds, 1, Len(ds) - 1)) + DigitVal(ds[Len(ds)])

\* str(n) for a natural number
RECURSIVE NatToDigits(_)
NatToDigits(n) ==
    IF n < 10 THEN <<DigitChars[n + 1]>>
    ELSE NatToDigits(n \div 10) \o <<DigitChars[(n % 10) + 1]>>

----------------------------------------------------------------------------
(* Cell values: None, int, float and str.  A float carries its value in    *)
(* thousandths (Scale), so 12.345 is FloatCell(12345).                         *)

\* 10 ** n
RECURSIVE Pow10(_)
Pow10(n) == IF n = 0 THEN 1 ELSE 10 * Pow10(n - 1)

\* three decimal digits are carried
Scale == Pow10(3)

None == [t |-> "none", v |-> 0, s |-> <<>>]
IntCell(n) == [t |-> "int", v |-> n, s |-> <<>>]
FloatCell(m) == [t |-> "float", v |-> m, s |-> <<>>]
StrCell(x) == [t |-> "str", v |-> 0, s |-> x]

\* isinstance(val, (int, float))
IsNumber(val) == val.t \in {"int", "float"}

\* the digits of the fraction m/Scale without trailing zeros, at least one
FractionDigits(m) ==
    LET d == <<DigitChars[(m \div 100) + 1], DigitChars[((m \div 10) % 10) + 1],
               DigitChars[(m % 10) + 1]>>
    IN  IF m % 100 = 0 THEN SubSeq(d, 1, 1)
        ELSE IF m % 10 = 0 THEN SubSeq(d, 1, 2) ELSE d

\* str(val)
PyStr(val) ==
    CASE val.t = "str" -> val.s
      [] val.t = "none" -> <<"N","o","n","e">>
      [] val.t = "int" ->
            IF val.v < 0 THEN <<"-">> \o NatToDigits(-val.v) ELSE NatToDigits(val.v)
      [] val.t = "float" ->
            LET a == IF val.v < 0 THEN -val.v ELSE val.v
                body == NatToDigits(a \div Scale) \o <<".">> \o FractionDigits(a % Scale)
            IN  IF val.v < 0 THEN <<"-">> \o body ELSE body

\* float(text): [ok |-> FALSE] stands for ValueError.  Decimal notation with
\* an optional sign and at most three fraction digits; every other text of
\* the model (letters, "/", empty) is rejected, as float() rejects it.
PyFloat(text) ==
    LET x == PyStrip(text)
        signed == Len(x) >= 1 /\ x[1] \in {"+", "-"}
        u == IF signed THEN SubSeq(x, 2, Len(x)) ELSE x
        dots == {i \in 1..Len(u) : u[i] = "."}
        wellFormed ==
            /\ Len(u) >= 1
            /\ \A i \in 1..Len(u) : IsDigitCh(u[i]) \/ u[i] = "."
            /\ Cardinality(dots) <= 1
            /\ \E i \in 1..Len(u) : IsDigitCh(u[i])
            /\ \A i \in dots : Len(u) - i <= 3
        dot == IF dots = {} THEN Len(u) + 1 ELSE CHOOSE i \in dots : TRUE
        whole == DigitsToInt(SubSeq(u, 1, dot - 1))
        frac == SubSeq(u, dot + 1, Len(u))
        padded == frac \o SubSeq(<<"0","0","0">>, 1, 3 - Len(frac))
        mag == whole * Scale + DigitsToInt(padded)
    IN  IF wellFormed
        THEN [ok |-> TRUE, v |-> IF signed /\ x[1] = "-" THEN -mag ELSE mag]
        ELSE [ok |-> FALSE, v |-> 0]

\* a rounding that truncates toward minus infinity instead
PyRoundFloatTrunc(m, ndigits) ==
    LET unit == Scale \div Pow10(ndigits) IN (m \div unit) * unit

\* round(x, ndigits) of a float x = m/Scale: to the nearest multiple of
\* 10**-ndigits, a tie going to the even neighbour

PyRoundFloat(m, ndigits) ==
    LET unit == Scale \div Pow10(ndigits)
        q == m \div unit
        r == m % unit
    IN  IF 2 * r < unit THEN q * unit
        ELSE IF 2 * r > unit THEN (q + 1) * unit
        ELSE IF q % 2 = 0 THEN q * unit ELSE (q + 1) * unit

\* round(val, ndigits) for ndigits >= 0: an int is returned as it is
PyRound(val, ndigits) ==
    IF val.t = "int" THEN val ELSE FloatCell(PyRoundFloat(val.v, ndigits))

----------------------------------------------------------------------------
(* The openpyxl worksheet operations the handler uses, on a dense grid *)

Range(f) == {f[i] : i \in DOMAIN f}

\* ws.max_row, ws.max_column
MaxRow(g) == Len(g)
MaxColumn(g) == Len(g[1])

\* ws.insert_rows(idx): a blank row at idx, the rows from idx on move down
InsertRows(g, idx) ==
    SubSeq(g, 1, idx - 1) \o <<[c \in 1..MaxColumn(g) |-> None]>> \o SubSeq(g, idx, Len(g))

\* ws.cell(row=r, column=c, value=val) and cell.value = val
SetCell(g, r, c, val) == [g EXCEPT ![r][c] = val]

\* ws.delete_cols(idx): column idx goes, the columns right of it move left
DeleteCols(g, idx) ==
    [r \in 1..Len(g) |-> SubSeq(g[r], 1, idx - 1) \o SubSeq(g[r], idx + 1, Len(g[r]))]

----------------------------------------------------------------------------
(* app.py, the "Save filtered copy" handler: its constants and the values  *)
(* it computes                                                             *)

\* app.py:380 and app.py:437
decimal_places == 0
header_row == 2

TitlePatterns ==
    { <<"_","H","i","g","h","l","i","g","h","t","s">>, <<"_","h","i","g","h","l","i","g","h","t","e","d">>, <<"_","G","r","e","e","n","_","h","i","g","h","l","i","g","h","t","e","d">>, <<"_","S","i","g","T","e","s","t","T","a","b","l","e">>, <<"_","S","i","g","T","e","s","t","T","a","b","l","e","_","H","i","g","h","l","i","g","h","t","s">> }

\* re.sub(r'(_Highlights|...).*$', '', stem, flags=re.IGNORECASE): the text
\* from the leftmost match on is dropped; then "_" -> " " and strip()
clean_title(s) ==
    LET hits == {i \in 1..Len(s) : \E p \in TitlePatterns : MatchesAtCI(s, i, p)}
        cut == IF hits = {} THEN s
               ELSE SubSeq(s, 1, (CHOOSE i \in hits : \A j \in hits : i <= j) - 1)
    IN  PyStrip(PyReplaceCh(cut, "_", " "))

\* insert_rows(1) and the title written into A1 (app.py:426-434)
InsertTitleOverwrite(g, title) == SetCell(g, 1, 1, StrCell(title))

InsertTitle(g, title) == SetCell(InsertRows(g, 1), 1, 1, StrCell(title))

\* header_values (app.py:440-444)
HeaderValues(g) ==
    [c \in 1..MaxColumn(g) |->
        LET v == g[header_row][c]
        IN  IF v = None THEN <<>> ELSE PyStrip(PyStr(v))]

\* h is a "Total" header (app.py:459)
IsTotalHeader(h) == h # <<>> /\ PyLower(PyStrip(h)) = <<"t","o","t","a","l">>

\* the loop that appends every "Total" header not yet kept (app.py:458-463)
RECURSIVE AddTotals(_, _, _)
AddTotals(nk, hv, i) ==
    IF i > Len(hv) THEN nk
    ELSE IF IsTotalHeader(hv[i]) /\ PyStrip(hv[i]) \notin Range(nk)
         THEN AddTotals(Append(nk, PyStrip(hv[i])), hv, i + 1)
         ELSE AddTotals(nk, hv, i + 1)

\* the selection trimmed (app.py:447)
StrippedKeep(keep) == [i \in 1..Len(keep) |-> PyStrip(keep[i])]

\* the first column's name put in front when missing (app.py:450-454)
WithFirstColumn(nk, hv) ==
    IF Len(hv) >= 1 /\ hv[1] \notin Range(nk) THEN <<hv[1]>> \o nk ELSE nk

\* a selection to which no "Total" header is added
NormalizedKeepNoTotals(keep, hv) == WithFirstColumn(StrippedKeep(keep), hv)

\* normalized_keep as the handler leaves it (app.py:447-463)
NormalizedKeep(keep, hv) == AddTotals(WithFirstColumn(StrippedKeep(keep), hv), hv, 1)

\* a guard that looks for a missing header row only
HeaderIsEmptyNoColumns(hv) == hv = <<>>

\* the empty-header guard (app.py:466)
HeaderIsEmpty(hv) == hv = <<>> \/ \A i \in 1..Len(hv) : hv[i] = <<>>

\* cols_to_delete, in ascending order as enumerate() yields it (app.py:470-473)
RECURSIVE ColsFrom(_, _, _)
ColsFrom(hv, nk, idx) ==
    IF idx > Len(hv) THEN <<>>
    ELSE IF idx # 1 /\ hv[idx] \notin Range(nk)
         THEN <<idx>> \o ColsFrom(hv, nk, idx + 1)
         ELSE ColsFrom(hv, nk, idx + 1)

cols_to_delete(hv, nk) == ColsFrom(hv, nk, 1)

\* sorted(xs) without reverse=True
RECURSIVE SortedAsc(_)
SortedAsc(xs) ==
    IF xs = <<>> THEN <<>>
    ELSE LET i == CHOOSE k \in 1..Len(xs) : \A j \in 1..Len(xs) : xs[k] <= xs[j]
         IN  <<xs[i]>> \o SortedAsc(SubSeq(xs, 1, i - 1) \o SubSeq(xs, i + 1, Len(xs)))

\* sorted(xs, reverse=True) (app.py:476)
RECURSIVE SortedDesc(_)
SortedDesc(xs) ==
    IF xs = <<>> THEN <<>>
    ELSE LET i == CHOOSE k \in 1..Len(xs) : \A j \in 1..Len(xs) : xs[k] >= xs[j]
         IN  <<xs[i]>> \o SortedDesc(SubSeq(xs, 1, i - 1) \o SubSeq(xs, i + 1, Len(xs)))

\* the deletion loop over an order of indices (app.py:476-478)
RECURSIVE DeleteLoop(_, _)
DeleteLoop(g, order) ==
    IF order = <<>> THEN g
    ELSE LET col_idx == Head(order)
         IN  IF 1 <= col_idx /\ col_idx <= MaxColumn(g)
             THEN DeleteLoop(DeleteCols(g, col_idx), Tail(order))
             ELSE DeleteLoop(g, Tail(order))

\* the test of the "Base" search (app.py:487)
IsBaseLabel(v) == v # None /\ PyLower(PyStrip(PyStr(v))) = <<"b","a","s","e">>

\* the two nested loops of the search (app.py:484-491): 0 when nothing matches
RECURSIVE ScanCells(_, _, _)
ScanCells(g, r, c) ==
    IF c > MaxColumn(g) THEN FALSE
    ELSE IF IsBaseLabel(g[r][c]) THEN TRUE ELSE ScanCells(g, r, c + 1)

\* a search that keeps the last matching row instead of the first
RECURSIVE FindLastRow(_, _)
FindLastRow(g, r) ==
    IF r <= header_row THEN 0
    ELSE IF ScanCells(g, r, 1) THEN r ELSE FindLastRow(g, r - 1)

FindTargetRowLast(g) == FindLastRow(g, MaxRow(g))

RECURSIVE ScanRows(_, _)
ScanRows(g, r) ==
    IF r > MaxRow(g) THEN 0
    ELSE IF ScanCells(g, r, 1) THEN r ELSE ScanRows(g, r + 1)

FindTargetRow(g) == ScanRows(g, header_row + 1)

\* what the body of the cell loop does with one value (app.py:499-507):
\* raised is the exception the inner try catches
CellOutcome(val) ==
    IF IsNumber(val)
    THEN [raised |-> FALSE, value |-> PyRound(val, decimal_places)]
    ELSE LET f == PyFloat(PyStr(val))
         IN  IF f.ok
             THEN [raised |-> FALSE, value |-> PyRound(FloatCell(f.v), decimal_places)]
             ELSE [raised |-> TRUE, value |-> val]

\* a cell loop that an exception ends
RECURSIVE RoundCellsStop(_, _)
RoundCellsStop(row, c) ==
    IF c > Len(row) THEN row
    ELSE LET o == CellOutcome(row[c])
         IN  IF o.raised THEN row
             ELSE RoundCellsStop([row EXCEPT ![c] = o.value], c + 1)

\* the cell loop over the target row (app.py:495-507)
RECURSIVE RoundCells(_, _)
RoundCells(row, c) ==
    IF c > Len(row) THEN row
    ELSE LET o == CellOutcome(row[c])
         IN  IF o.raised THEN RoundCells(row, c + 1)
             ELSE RoundCells([row EXCEPT ![c] = o.value], c + 1)

\* the rounding step on the sheet (app.py:494-507)
RoundTargetRow(g, t) == IF t = 0 THEN g ELSE [g EXCEPT ![t] = RoundCells(g[t], 1)]

----------------------------------------------------------------------------
(* The inputs: workbooks offered for export and selections *)

\* stems of files the page offers: the name holds "_highlights" and no
\* "sigtesttable" (app.py:291-298)
Stems == { <<"T","1","_","H","i","g","h","l","i","g","h","t","s">>, <<"Q","_","2","_","h","i","g","h","l","i","g","h","t","s","_","v","2">> }

\* header cells: empty, plain names, and "Total" in two spellings
HeaderCells ==
    { None, StrCell(<<"I","D">>), StrCell(<<"A">>), StrCell(<<"B">>), StrCell(<<"T","o","t","a","l">>),
      StrCell(<<" ","T","O","T","A","L">>) }

\* the header of the first column, the column of the row labels
FirstHeaderCells == { None, StrCell(<<"I","D">>) }

\* data rows by kind: the cell of column j
DataCell(kind, j) ==
    CASE kind = "base" ->
            CASE j = 1 -> StrCell(<<"B","a","s","e">>)
              [] j = 2 -> FloatCell(12345)
              [] j = 3 -> StrCell(<<"7",".","8">>)
              [] j = 4 -> StrCell(<<"n","/","a">>)
              [] j = 5 -> None
              [] OTHER -> FloatCell(j * Scale + 500)
      [] kind = "base2" ->
            CASE j = 1 -> FloatCell(2500)
              [] j = 2 -> StrCell(<<" ","B","A","S","E"," ">>)
              [] j = 3 -> StrCell(<<"-","0",".","5">>)
              [] j = 4 -> IntCell(7)
              [] OTHER -> FloatCell(j * Scale + 501)
      [] kind = "near" ->
            CASE j = 1 -> StrCell(<<"B","a","s","e","d">>)
              [] j = 2 -> None
              [] OTHER -> FloatCell(j * Scale + 400)
      [] OTHER ->
            CASE j = 1 -> StrCell(<<"Q","1">>)
              [] OTHER -> FloatCell(j * Scale + 600)

RowKinds == {"base", "base2", "near", "plain"}

DataRow(kind, n) == [j \in 1..n |-> DataCell(kind, j)]

KindSeqs == UNION {[1..m -> RowKinds] : m \in 0..MaxDataRows}

Body(kinds, n) == [i \in 1..Len(kinds) |-> DataRow(kinds[i], n)]

\* workbooks with every header row over HeaderCells, above one "Base" row
\* and one plain row
HeaderFamily(n) ==
    { <<hdr>> \o Body(<<"base", "plain">>, n) :
        hdr \in {h \in [1..n -> HeaderCells] : h[1] \in FirstHeaderCells} }

\* workbooks with every sequence of data rows, below a usual header row,
\* one that names its first column "Base", or an empty one
UsualHeader(n) == SubSeq(<<StrCell(<<"I","D">>), StrCell(<<"A">>), StrCell(<<"T","o","t","a","l">>), StrCell(<<"B">>)>>
                         \o [j \in 1..n |-> StrCell(<<"B">>)], 1, n)

\* the same header with "Base" as the name of the first column
BaseHeader(n) == [UsualHeader(n) EXCEPT ![1] = StrCell(<<"B","a","s","e">>)]

BodyFamily(n) ==
    { <<hdr>> \o Body(kinds, n) :
        hdr \in {UsualHeader(n), BaseHeader(n), [j \in 1..n |-> None]},
        kinds \in KindSeqs }

\* a workbook: a header row and data rows, all of the same width
Workbooks == UNION {HeaderFamily(n) \cup BodyFamily(n) : n \in 1..MaxCols}

\* the sub-list of xs at the positions in pick
RECURSIVE SubList(_, _, _)
SubList(xs, pick, i) ==
    IF i > Len(xs) THEN <<>>
    ELSE IF i \in pick THEN <<xs[i]>> \o SubList(xs, pick, i + 1)
         ELSE SubList(xs, pick, i + 1)

\* the selection is the caller's input: any sub-list of these names, whether
\* or not the workbook has a column of that name (app.py:373-378, 447)
KeepOptions == << <<"I","D"," ">>, <<"A">>, <<"T","o","t","a","l">> >>

KeepLists ==
    { SubList(KeepOptions, pick, 1) : pick \in SUBSET (1..Len(KeepOptions)) }

----------------------------------------------------------------------------
(* The export handler as a state machine (app.py:398-535) *)

Absent == [st |-> "absent", grid |-> <<>>]

\* a copy that leaves an exported file in place
copy2_unless_exported(source, old) ==
    IF old.st = "final" THEN [st |-> "copy", grid |-> old.grid]
    ELSE [st |-> "copy", grid |-> source]

\* shutil.copy2(fpath, dest_path): the file at dest_path, whatever it was,
\* becomes a copy of the source (app.py:417)
copy2(source, old) == [st |-> "copy", grid |-> source]

\* the handler has ended and its messages are on the page
Ended == {"nosel", "aborted", "saved", "failed"}

NoToken == <<>>
NotParsed == [st |-> "unset", row |-> 0, col |-> 0]

InitExport ==
    /\ stem \in Stems
    /\ src \in Workbooks
    /\ dest = Absent
    /\ pc = "idle"
    /\ keep_cols = <<>>
    /\ ws = <<>>
    /\ header_values = <<>>
    /\ normalized_keep = <<>>
    /\ target_row = 0
    /\ msgs = {}

Init ==
    /\ InitExport
    /\ tok = NoToken
    /\ parsed = NotParsed
    /\ CsvAtRest
    /\ RenderAtRest
    /\ GroupAtRest
    /\ RunAtRest
    /\ UiAtRest
    /\ AgainAtRest

\* the button is pressed with a selection: the guard on an empty selection
\* and shutil.copy2 into export_files/ (app.py:398-417)
ClickSave ==
    /\ pc = "idle"
    /\ \E k \in KeepLists, copied \in BOOLEAN :
          /\ ws' = <<>>
          /\ header_values' = <<>>
          /\ normalized_keep' = <<>>
          /\ target_row' = 0
          /\ IF k = <<>>
             THEN /\ keep_cols' = <<>>
                  /\ pc' = "nosel"
                  /\ msgs' = {"warning: no columns selected"}
                  /\ dest' = dest
             ELSE IF copied
             THEN /\ keep_cols' = k
                  /\ pc' = "copied"
                  /\ msgs' = {}
                  /\ dest' = copy2(src, dest)
             ELSE /\ keep_cols' = <<>>
                  /\ pc' = "failed"
                  /\ msgs' = {"error"}
                  /\ dest' = dest
    /\ UNCHANGED <<stem, src, tok, parsed, csvVars, renderVars, groupVars, runVars, uiVars, againVars>>

\* load_workbook of the copy, insert_rows(1) and the title (app.py:421-434)
LoadAndTitle ==
    /\ pc = "copied"
    /\ \E loaded \in BOOLEAN :
          IF loaded
          THEN /\ ws' = InsertTitle(dest.grid, clean_title(stem))
               /\ pc' = "titled"
               /\ msgs' = msgs
          ELSE /\ ws' = ws
               /\ pc' = "failed"
               /\ msgs' = msgs \cup {"error"}
    /\ UNCHANGED <<stem, src, dest, keep_cols, header_values, normalized_keep,
                   target_row, tok, parsed, csvVars, renderVars, groupVars, runVars, uiVars, againVars>>

\* header_values and normalized_keep (app.py:437-463)
ReadHeader ==
    /\ pc = "titled"
    /\ LET hv == HeaderValues(ws)
           nk0 == StrippedKeep(keep_cols)
           nk1 == WithFirstColumn(nk0, hv)
           nk2 == AddTotals(nk1, hv, 1)
       IN  /\ header_values' = hv
           /\ normalized_keep' = NormalizedKeep(keep_cols, hv)
           /\ msgs' = msgs
                \cup (IF nk1 # nk0 THEN {"info: first column preserved"} ELSE {})
                \cup (IF nk2 # nk1 THEN {"info: Total preserved"} ELSE {})
    /\ pc' = "header"
    /\ UNCHANGED <<stem, src, dest, keep_cols, ws, target_row, tok, parsed, csvVars, renderVars, groupVars, runVars, uiVars, againVars>>

\* the guard on an empty header row (app.py:466-467)
AbortEmptyHeader ==
    /\ pc = "header"
    /\ HeaderIsEmpty(header_values)
    /\ msgs' = msgs \cup {"warning: no header"}
    /\ pc' = "aborted"
    /\ UNCHANGED <<stem, src, dest, keep_cols, ws, header_values, normalized_keep,
                   target_row, tok, parsed, csvVars, renderVars, groupVars, runVars, uiVars, againVars>>

\* cols_to_delete and the deletion loop (app.py:469-478)
DeleteColumns ==
    /\ pc = "header"
    /\ ~HeaderIsEmpty(header_values)
    /\ ws' = DeleteLoop(ws, SortedDesc(cols_to_delete(header_values, normalized_keep)))
    /\ pc' = "deleted"
    /\ UNCHANGED <<stem, src, dest, keep_cols, header_values, normalized_keep,
                   target_row, msgs, tok, parsed, csvVars, renderVars, groupVars, runVars, uiVars, againVars>>

\* the search for the "Base" row and its rounding (app.py:480-513)
RoundBaseRow ==
    /\ pc = "deleted"
    /\ LET t == FindTargetRow(ws)
       IN  /\ target_row' = t
           /\ ws' = RoundTargetRow(ws, t)
           /\ msgs' = msgs \cup (IF t # 0 THEN {"info: rounded"} ELSE {})
    /\ pc' = "rounded"
    /\ UNCHANGED <<stem, src, dest, keep_cols, header_values, normalized_keep,
                   tok, parsed, csvVars, renderVars, groupVars, runVars, uiVars, againVars>>

\* wb.save over the copy, the success message and the download button
\* (app.py:515-532); a failing save falls to the outer except (app.py:534)
SaveWorkbook ==
    /\ pc = "rounded"
    /\ \E outcome \in {"saved", "not written", "cut short"} :
          CASE outcome = "saved" ->
                 /\ dest' = [st |-> "final", grid |-> ws]
                 /\ msgs' = msgs \cup {"success", "download"}
                 /\ pc' = "saved"
            [] outcome = "not written" ->
                 /\ dest' = dest
                 /\ msgs' = msgs \cup {"error"}
                 /\ pc' = "failed"
            [] outcome = "cut short" ->
                 /\ dest' = [st |-> "partial", grid |-> <<>>]
                 /\ msgs' = msgs \cup {"error"}
                 /\ pc' = "failed"
    /\ UNCHANGED <<stem, src, keep_cols, ws, header_values, normalized_keep,
                   target_row, tok, parsed, csvVars, renderVars, groupVars, runVars, uiVars, againVars>>

\* the "Clear export files" button (app.py:112-117, 36-56): a new script
\* run, in which no handler state exists
ClearExport ==
    /\ pc \in Ended \cup {"idle"}
    /\ dest # Absent
    /\ dest' = Absent
    /\ pc' = "idle"
    /\ keep_cols' = <<>>
    /\ ws' = <<>>
    /\ header_values' = <<>>
    /\ normalized_keep' = <<>>
    /\ target_row' = 0
    /\ msgs' = {}
    /\ UNCHANGED <<stem, src, tok, parsed, csvVars, renderVars, groupVars, runVars, uiVars, againVars>>

\* any other interaction with the page: the script runs again without the
\* button pressed, the handler's values and messages are gone, the files stay
Rerun ==
    /\ pc \in Ended
    /\ pc' = "idle"
    /\ keep_cols' = <<>>
    /\ ws' = <<>>
    /\ header_values' = <<>>
    /\ normalized_keep' = <<>>
    /\ target_row' = 0
    /\ msgs' = {}
    /\ UNCHANGED <<stem, src, dest, tok, parsed, csvVars, renderVars, groupVars, runVars, uiVars, againVars>>

Next ==
    \/ ClickSave
    \/ LoadAndTitle
    \/ ReadHeader
    \/ AbortEmptyHeader
    \/ DeleteColumns
    \/ RoundBaseRow
    \/ SaveWorkbook
    \/ ClearExport
    \/ Rerun

Spec == Init /\ [][Next]_vars

----------------------------------------------------------------------------
(* data_processor.py: _parse_cell_address_token *)

\* openpyxl's column_index_from_string: the index of a column name of one to
\* three capital letters; ok = FALSE stands for the ValueError it raises on
\* every other string
RECURSIVE Base26(_)
Base26(ls) ==
    IF ls = <<>> THEN 0
    ELSE 26 * Base26(SubSeq(ls, 1, Len(ls) - 1))
         + (CHOOSE i \in 1..26 : UpperLetters[i] = ls[Len(ls)])

column_index_from_string(str_col) ==
    IF Len(str_col) \in 1..3 /\ \A i \in 1..Len(str_col) : IsUpperCh(str_col[i])
    THEN [ok |-> TRUE, v |-> Base26(str_col)]
    ELSE [ok |-> FALSE, v |-> 0]

ParseNone == [st |-> "none", row |-> 0, col |-> 0]
ParsePair(r, c) == [st |-> "pair", row |-> r, col |-> c]

\* the number of leading letters of x: group 1 of ^([A-Za-z]+)(\d+)$
LeadingLetters(x) ==
    CHOOSE k \in 0..Len(x) :
        /\ \A i \in 1..k : IsLetterCh(x[i])
        /\ k < Len(x) => ~IsLetterCh(x[k + 1])

\* the parser without .upper() on the letters
_parse_cell_address_token_no_upper(t) ==
    LET x == PyStrip(t)
        k == LeadingLetters(x)
        m == k >= 1 /\ k < Len(x) /\ \A i \in (k + 1)..Len(x) : IsDigitCh(x[i])
    IN  IF x = <<>> THEN ParseNone
        ELSE IF m
        THEN LET col_idx == column_index_from_string(SubSeq(x, 1, k))
                 row_num == DigitsToInt(SubSeq(x, k + 1, Len(x)))
             IN  IF col_idx.ok THEN ParsePair(row_num, col_idx.v) ELSE ParseNone
        ELSE ParseNone

\* _parse_cell_address_token (data_processor.py:134-151)
_parse_cell_address_token(t) ==
    LET x == PyStrip(t)
        k == LeadingLetters(x)
        m == k >= 1 /\ k < Len(x) /\ \A i \in (k + 1)..Len(x) : IsDigitCh(x[i])
    IN  IF x = <<>> THEN ParseNone
        ELSE IF m
        THEN LET col_letters == SubSeq(x, 1, k)
                 row_num == DigitsToInt(SubSeq(x, k + 1, Len(x)))
                 col_idx == column_index_from_string(PyUpper(col_letters))
             IN  IF col_idx.ok THEN ParsePair(row_num, col_idx.v) ELSE ParseNone
        ELSE ParseNone

\* the characters of the tokens tried
TokenChars == {"A", "B", "b", "Z", "0", "1", "2", " "}

Tokens == UNION {[1..n -> TokenChars] : n \in 0..MaxTokLen}

\* a call of the parser on one token; the export handler is at rest
InitParse ==
    /\ stem = CHOOSE x \in Stems : TRUE
    /\ src = CHOOSE w \in Workbooks : TRUE
    /\ dest = Absent
    /\ pc = "idle"
    /\ keep_cols = <<>>
    /\ ws = <<>>
    /\ header_values = <<>>
    /\ normalized_keep = <<>>
    /\ target_row = 0
    /\ msgs = {}
    /\ tok \in Tokens
    /\ parsed = NotParsed
    /\ CsvAtRest
    /\ RenderAtRest
    /\ GroupAtRest
    /\ RunAtRest
    /\ UiAtRest
    /\ AgainAtRest

ParseToken ==
    /\ parsed = NotParsed
    /\ parsed' = _parse_cell_address_token(tok)
    /\ UNCHANGED <<tok, stem, src, dest, pc, keep_cols, ws, header_values,
                   normalized_keep, target_row, msgs, csvVars, renderVars, groupVars, runVars, uiVars, againVars>>

NextParse == ParseToken

SpecParse == InitParse /\ [][NextParse]_vars

----------------------------------------------------------------------------
(* Reference notions used by the properties of the export *)

SrcCols == 1..Len(src[1])

\* the title expected for each stem
ExpectedTitle == IF stem = <<"T","1","_","H","i","g","h","l","i","g","h","t","s">> THEN <<"T","1">> ELSE <<"Q"," ","2">>

\* the expected sheet after the title insertion: the title alone in row 1,
\* every row of the source one row lower
TitledSrc ==
    <<[c \in SrcCols |-> IF c = 1 THEN StrCell(ExpectedTitle) ELSE None]>> \o src

\* the trimmed header text of column j of the source
HeaderText(j) == IF src[1][j] = None THEN <<>> ELSE PyStrip(PyStr(src[1][j]))

IsTotalColumn(j) == PyLower(HeaderText(j)) = <<"t","o","t","a","l">>

IsRequested(j) == \E i \in 1..Len(keep_cols) : PyStrip(keep_cols[i]) = HeaderText(j)

MandatoryColumns == {1} \cup {j \in SrcCols : IsTotalColumn(j)}

\* grid g restricted to the columns in keep, in their order
Restrict(g, keep) == [r \in 1..Len(g) |-> SubList(g[r], keep, 1)]

\* the value of a number cell in thousandths
NumValue(a) == IF a.t = "int" THEN a.v * Scale ELSE a.v

Abs(x) == IF x < 0 THEN -x ELSE x

\* b is a whole number nearest to m thousandths
NearestWhole(b, m) ==
    /\ IsNumber(b)
    /\ NumValue(b) % Scale = 0
    /\ 2 * Abs(NumValue(b) - m) <= Scale

\* the step of the handler that searches and rounds the "Base" row
RoundStep == pc = "deleted" /\ pc' = "rounded"

----------------------------------------------------------------------------
(* Properties *)

\* C1: with a header row that is not entirely empty and a non-empty
\* selection, column 1 and every column whose trimmed header equals "Total"
\* ignoring case are still in the grid after the deletion and in the grid
\* that is saved, with their header and their data cells (the cells of the
\* rounded row are there as rounded); no selection deletes them.
C1_MandatoryColumnsKept ==
    /\ pc = "deleted" =>
          \A j \in MandatoryColumns :
             \E p \in 1..MaxColumn(ws) :
                /\ j = 1 => p = 1
                /\ \A r \in 1..Len(src) : ws[r + 1][p] = src[r][j]
    /\ pc = "saved" =>
          /\ dest.st = "final"
          /\ Len(dest.grid) = Len(src) + 1
          /\ \A j \in MandatoryColumns :
                \E p \in 1..MaxColumn(dest.grid) :
                   /\ j = 1 => p = 1
                   /\ \A r \in 1..Len(src) :
                         r + 1 # target_row => dest.grid[r + 1][p] = src[r][j]

\* C1 witness: a workbook is saved in which a "Total" column that was not
\* selected stands beside a column that was deleted.
C1_Witness ==
    /\ pc = "saved"
    /\ MaxColumn(dest.grid) < Len(src[1])
    /\ \E j \in SrcCols : j > 1 /\ IsTotalColumn(j) /\ ~IsRequested(j)

\* C2 (as claimed): after the deletion step the retained columns are exactly
\* column 1, the "Total" columns and the columns whose trimmed header equals
\* a trimmed entry of the selection, in their original order.
C2_ExactlyClaimedColumns ==
    pc = "deleted" =>
        ws = Restrict(TitledSrc,
                      {j \in SrcCols : j = 1 \/ IsTotalColumn(j) \/ IsRequested(j)})

\* C3: the deletion removes from every row exactly the cells at the original
\* indices in the delete set, whatever their number and position: no retained
\* cell ends under another column's header.
C3_DeletionRemovesExactlyTheSet ==
    pc = "deleted" =>
        ws = Restrict(TitledSrc,
                      SrcCols \ Range(cols_to_delete(header_values, normalized_keep)))

\* C3 witness: two columns that are not neighbours were deleted from a sheet
\* of four columns.
C3_Witness ==
    /\ pc = "deleted"
    /\ Len(src[1]) = 4
    /\ Range(cols_to_delete(header_values, normalized_keep)) = {2, 4}

\* C4: when every header cell is empty the export aborts before any column
\* is deleted: the sheet is the titled sheet still, nothing was rounded,
\* wb.save was not reached, the warning is shown and neither the success
\* message nor the download of the final file.
C4_EmptyHeaderAborts ==
    (\A j \in SrcCols : HeaderText(j) = <<>>) =>
        /\ pc \notin {"deleted", "rounded", "saved"}
        /\ dest.st # "final"
        /\ pc = "aborted" =>
              /\ ws = TitledSrc
              /\ target_row = 0
              /\ "warning: no header" \in msgs
              /\ msgs \cap {"success", "download", "info: rounded", "error"} = {}

\* C4 witness: an export of a workbook with an empty header row has aborted.
C4_Witness ==
    /\ pc = "aborted"
    /\ Len(src[1]) >= 2
    /\ \A j \in SrcCols : src[1][j] = None

\* C5 (as claimed): an export that does not end in success leaves no file it
\* produced at the destination path.
C5_NoFileUnlessSuccess ==
    pc \in {"aborted", "failed"} => dest.st \notin {"copy", "partial"}

\* C6: in the step that rounds, every number of the target row becomes the
\* nearest whole number, every text that parses as a number becomes the
\* nearest whole number of its value, every other value stays, and the cells
\* of all other rows stay; 12.345, "7.8", "n/a" become 12, 8, "n/a".
C6_BaseRowRounded ==
    [][RoundStep =>
        LET t == target_row'
        IN  /\ Len(ws') = Len(ws)
            /\ \A r \in 1..Len(ws) : r # t => ws'[r] = ws[r]
            /\ t # 0 =>
                  \A c \in 1..Len(ws[t]) :
                     LET a == ws[t][c]
                         b == ws'[t][c]
                     IN  /\ IsNumber(a) => NearestWhole(b, NumValue(a))
                         /\ (a.t = "str" /\ PyFloat(a.s).ok) =>
                               NearestWhole(b, PyFloat(a.s).v)
                         /\ (a.t = "none" \/ (a.t = "str" /\ ~PyFloat(a.s).ok)) => b = a
                         /\ a = FloatCell(12345) => NumValue(b) = 12000
                         /\ a = StrCell(<<"7",".","8">>) => NumValue(b) = 8000
                         /\ a = StrCell(<<"n","/","a">>) => b = a
    ]_vars

\* C6 witness: the row 12.345, "7.8", "n/a" beside its "Base" label has been
\* rounded to 12, 8, "n/a".
C6_Witness ==
    /\ pc = "rounded"
    /\ target_row # 0
    /\ Len(ws[target_row]) = 4
    /\ NumValue(ws[target_row][2]) = 12000 /\ IsNumber(ws[target_row][2])
    /\ NumValue(ws[target_row][3]) = 8000 /\ IsNumber(ws[target_row][3])
    /\ ws[target_row][4] = StrCell(<<"n","/","a">>)

\* rows below the header that hold a cell whose trimmed text is "base"
\* ignoring case
BaseRows(g) ==
    {r \in (header_row + 1)..Len(g) :
        \E c \in 1..Len(g[r]) :
            g[r][c].t = "str" /\ PyLower(PyStrip(g[r][c].s)) = <<"b","a","s","e">>}

\* C7: the row rounded is the topmost row below the header row that holds a
\* cell whose trimmed text equals "Base" ignoring case; the title row and the
\* header row are never chosen; no other row is changed; when no cell
\* matches the grid stays as it is and nothing is reported.
C7_TopmostBaseRowBelowHeader ==
    [][RoundStep =>
        LET rows == BaseRows(ws)
        IN  /\ rows # {} =>
                  /\ target_row' \in rows
                  /\ \A r \in rows : target_row' <= r
                  /\ \A r \in rows : r # target_row' => ws'[r] = ws[r]
            /\ target_row' \notin 1..header_row
            /\ rows = {} => (target_row' = 0 /\ ws' = ws /\ msgs' = msgs)
    ]_vars

\* C7 witness: two rows below the header hold the label and the header row
\* holds it too; the upper of the two rows was chosen.
C7_Witness ==
    /\ pc = "rounded"
    /\ Cardinality(BaseRows(ws)) = 2
    /\ ws[header_row][1] = StrCell(<<"B","a","s","e">>)
    /\ target_row = header_row + 1

\* the body of the cell loop raises on this value
RaisesOn(a) == ~IsNumber(a) /\ ~PyFloat(PyStr(a)).ok

\* C8: a cell of the target row on which the rounding raises stops nothing:
\* every cell after it that holds a number or a numeric text is rounded all
\* the same, and the handler goes on to the save with no error reported.
C8_CellFailureDoesNotStopRow ==
    [][(RoundStep /\ target_row' # 0) =>
        LET t == target_row'
        IN  /\ \A c1, c2 \in 1..Len(ws[t]) :
                  (c1 < c2 /\ RaisesOn(ws[t][c1]) /\ ~RaisesOn(ws[t][c2])) =>
                      (IsNumber(ws'[t][c2]) /\ NumValue(ws'[t][c2]) % Scale = 0)
            /\ msgs' \cap {"error", "warning: rounding"} = {}
    ]_vars

\* C8 witness: a workbook was saved in whose target row a number was rounded
\* to the right of a cell on which the rounding raised.
C8_Witness ==
    /\ pc = "saved"
    /\ target_row # 0
    /\ \E c1, c2 \in 1..Len(ws[target_row]) :
          /\ c1 < c2
          /\ RaisesOn(ws[target_row][c1])
          /\ ws[target_row][c2] = FloatCell(12000)

\* the columns the handler's own values say are kept
KeptByName ==
    {j \in SrcCols : j = 1 \/ header_values[j] \in Range(normalized_keep)}

\* C9: the title insertion puts a new row 1 above the sheet whatever the
\* sheet holds: row 1 holds the title in column 1 and nothing else, source
\* row r is row r + 1 with its values; and in every later state of the
\* export row 1 is the title row and row 2 the header row.
C9_TitleRowInserted ==
    /\ pc \in {"titled", "header", "aborted"} => ws = TitledSrc
    /\ pc \in {"deleted", "rounded", "saved"} =>
          /\ Len(ws) = Len(src) + 1
          /\ ws[1][1] = StrCell(ExpectedTitle)
          /\ \A c \in 2..Len(ws[1]) : ws[1][c] = None
          /\ ws[header_row] = SubList(src[1], KeptByName, 1)

\* C9 witness: the title was inserted above a sheet whose first row already
\* looks like a title row (one text in column 1, nothing else), and the
\* export went on to the save.
C9_Witness ==
    /\ pc = "saved"
    /\ Len(src[1]) >= 2
    /\ src[1][1] # None
    /\ \A c \in 2..Len(src[1]) : src[1][c] = None
    /\ ws[header_row] = <<src[1][1]>>

----------------------------------------------------------------------------
(* Properties of _parse_cell_address_token *)

\* x is one or more letters followed by one or more digits
IsAddressForm(x) ==
    \E k \in 1..(Len(x) - 1) :
        /\ \A i \in 1..k : IsLetterCh(x[i])
        /\ \A i \in (k + 1)..Len(x) : IsDigitCh(x[i])

\* the number of letters of an address form
LetterCount(x) == Cardinality({i \in 1..Len(x) : IsLetterCh(x[i])})

\* A = 1 ... Z = 26, in either case
LetterNumber(c) ==
    CHOOSE i \in 1..26 : UpperLetters[i] = c \/ LowerLetters[i] = c

\* the letters read as a base-26 code: A = 1, Z = 26, AA = 27
RECURSIVE ColumnCode(_)
ColumnCode(ls) ==
    IF ls = <<>> THEN 0
    ELSE 26 * ColumnCode(SubSeq(ls, 1, Len(ls) - 1)) + LetterNumber(ls[Len(ls)])

\* the coordinate an address form stands for
Coordinate(x) ==
    LET k == LetterCount(x)
    IN  ParsePair(DigitsToInt(SubSeq(x, k + 1, Len(x))), ColumnCode(SubSeq(x, 1, k)))

----------------------------------------------------------------------------
(* data_processor.py: _parse_highlight_csv.  The file is taken as the        *)
(* DataFrame pd.read_csv(path, dtype=str) makes of it: column names in file *)
(* order and rows of fields, each field a string or NaN (an empty field).   *)

\* a field pandas read as missing
NaN == [t |-> "nan", v |-> 0, s |-> <<>>]

\* pd.notna(val)
NotNa(val) == val # NaN

\* bool(val): NaN is a float other than zero, a string is true unless empty
Truthy(val) == val = NaN \/ (val.t = "str" /\ val.s # <<>>)

\* x or y
PyOr(x, y) == IF Truthy(x) THEN x ELSE y

\* the key "__ALL__"
ALL_KEY == StrCell(<<"_","_","A","L","L","_","_">>)

\* int(x) of a float x = m/Scale: truncation toward zero
PyInt(m) == IF m >= 0 THEN m \div Scale ELSE -((-m) \div Scale)

\* cols = {c.lower(): c for c in df.columns}: the column a lower-case name
\* stands for, which is the last column of that name; 0 when not in cols
Cols(columns, lname) ==
    LET hits == {i \in 1..Len(columns) : PyLower(columns[i]) = lname}
    IN  IF hits = {} THEN 0 ELSE CHOOSE i \in hits : \A j \in hits : j <= i

\* the names looked for, in the order the code tries them
KeyCandidates ==
    << <<"t","a","b","l","e">>, <<"s","h","e","e","t">>, <<"f","i","l","e">>,
       <<"t","a","b","l","e","_","n","a","m","e">> >>

RowAliases ==
    << <<"r","o","w">>, <<"r">>, <<"e","x","c","e","l","_","r","o","w">>,
       <<"r","o","w","_","i","n","d","e","x">> >>

ColAliases ==
    << <<"c","o","l">>, <<"c">>, <<"c","o","l","u","m","n">>,
       <<"c","o","l","_","i","n","d","e","x">> >>

CellName == <<"c","e","l","l">>
AddressName == <<"a","d","d","r","e","s","s">>

\* table_key_col: the column of the first candidate in cols; 0 for None
RECURSIVE FirstCandidate(_, _, _)
FirstCandidate(columns, cands, i) ==
    IF i > Len(cands) THEN 0
    ELSE IF Cols(columns, cands[i]) > 0 THEN Cols(columns, cands[i])
    ELSE FirstCandidate(columns, cands, i + 1)

TableKeyCol(columns) == FirstCandidate(columns, KeyCandidates, 1)

\* key = "__ALL__" if table_key_col is None
\*       else (row.get(table_key_col) or "__ALL__")
RowKey(columns, row) ==
    IF TableKeyCol(columns) = 0 THEN ALL_KEY
    ELSE PyOr(row[TableKeyCol(columns)], ALL_KEY)

\* a field handed to the address parser when it is not NaN
ParseField(f) ==
    IF NotNa(f) THEN _parse_cell_address_token(f.s) ELSE ParseNone

\* the address column lname of the row: parsed when present and not NaN
AddressRule(columns, row, lname) ==
    IF Cols(columns, lname) = 0 THEN ParseNone
    ELSE ParseField(row[Cols(columns, lname)])

\* no value: r or c stays None
NoNumber == [ok |-> FALSE, v |-> 0]

\* int(x) of the float just parsed; a ValueError leaves None
IntOfFloat(x) == IF x.ok THEN [ok |-> TRUE, v |-> PyInt(x.v)] ELSE NoNumber

\* int(float(val)) of a field that is not NaN
FieldNumber(f) == IF NotNa(f) THEN IntOfFloat(PyFloat(f.s)) ELSE NoNumber

\* the value under one alias, when the alias is in cols
AliasNumber(columns, row, lname) ==
    IF Cols(columns, lname) = 0 THEN NoNumber
    ELSE FieldNumber(row[Cols(columns, lname)])

\* a when it is a value, else b
NumberOrElse(a, b) == IF a.ok THEN a ELSE b

\* the loop over the aliases: the first alias in cols whose field is not NaN
\* and converts by int(float(val)); the loop breaks there
RECURSIVE FirstNumber(_, _, _, _)
FirstNumber(columns, row, aliases, i) ==
    IF i > Len(aliases) THEN NoNumber
    ELSE NumberOrElse(AliasNumber(columns, row, aliases[i]),
                      FirstNumber(columns, row, aliases, i + 1))

\* a normalisation that adds 1 only to the value below 1
NormalizeEach(r, c) ==
    ParsePair(IF r >= 1 THEN r ELSE r + 1, IF c >= 1 THEN c ELSE c + 1)

\* r, c as they are when both are >= 1, else r + 1, c + 1
Normalize(r, c) ==
    IF r >= 1 /\ c >= 1 THEN ParsePair(r, c) ELSE ParsePair(r + 1, c + 1)

\* if r is not None and c is not None
NormalizeIfBoth(r, c) == IF r.ok /\ c.ok THEN Normalize(r.v, c.v) ELSE ParseNone

\* the numeric row/column columns of the row
NumericRule(columns, row) ==
    NormalizeIfBoth(FirstNumber(columns, row, RowAliases, 1),
                    FirstNumber(columns, row, ColAliases, 1))

\* a when it is a coordinate, else b
PairOrElse(a, b) == IF a # ParseNone THEN a ELSE b

\* for possible in df.columns: the first field that is not NaN and parses
RECURSIVE GenericScan(_, _)
GenericScan(row, i) ==
    IF i > Len(row) THEN ParseNone
    ELSE PairOrElse(ParseField(row[i]), GenericScan(row, i + 1))

\* a row loop that tries the numeric columns before the address columns
RowCoordinateNumericFirst(columns, row) ==
    PairOrElse(NumericRule(columns, row),
      PairOrElse(AddressRule(columns, row, CellName),
        PairOrElse(AddressRule(columns, row, AddressName),
                   GenericScan(row, 1))))

\* the coordinate one pass of the row loop adds (data_processor.py:183-232)
RowCoordinate(columns, row) ==
    PairOrElse(AddressRule(columns, row, CellName),
      PairOrElse(AddressRule(columns, row, AddressName),
        PairOrElse(NumericRule(columns, row),
                   GenericScan(row, 1))))

\* results.setdefault(key, set()).add((row, col))
AddCoord(res, key, coord) ==
    res \cup {[key |-> key, row |-> coord.row, col |-> coord.col]}

\* add_coord when the pass found a coordinate
AddIfPair(res, key, coord) ==
    IF coord # ParseNone THEN AddCoord(res, key, coord) ELSE res

\* one pass of the row loop
RowStep(res, columns, row) ==
    AddIfPair(res, RowKey(columns, row), RowCoordinate(columns, row))

\* the mapping returned for a table: the row loop over rows i..
RECURSIVE RowLoop(_, _, _)
RowLoop(res, file, i) ==
    IF i > Len(file.rows) THEN res
    ELSE RowLoop(RowStep(res, file.columns, file.rows[i]), file, i + 1)

\* _parse_highlight_csv(path) as a whole
ParseHighlightCsv(file) ==
    IF file.st = "table" THEN RowLoop({}, file, 1) ELSE {}

\* the outcome of path.exists() and pd.read_csv, with the C engine and then
\* the python engine (data_processor.py:159-168)
ReadOutcomeUnguarded(file) ==
    CASE file.st = "absent" -> "empty"
      [] file.st = "unreadable" -> "raised"
      [] file.st = "table" -> "table"

ReadOutcome(file) ==
    CASE file.st = "absent" -> "empty"
      [] file.st = "unreadable" -> "empty"
      [] file.st = "table" -> "table"

\* fields of the files tried
F(x) == StrCell(x)

\* a column of a file: its name and the fields tried in it
Column(name, vals) == [name |-> name, vals |-> vals]

\* the column layouts tried: address columns in both spellings and orders,
\* numeric columns under several aliases, grouping columns, unrecognised
\* columns, and fields that are missing, blank, zero-based, negative,
\* fractional or not a coordinate at all
Layouts ==
    << << Column(<<"c","e","l","l">>, {NaN, F(<<"B","2">>), F(<<"a","0">>), F(<<"x">>)}) >>,
       << Column(<<"C","e","l","l">>, {NaN, F(<<"x">>), F(<<"B","2">>)}),
          Column(<<"a","d","d","r","e","s","s">>, {NaN, F(<<"C","3">>)}) >>,
       << Column(<<"a","d","d","r","e","s","s">>, {F(<<"C","3">>), F(<<"x">>)}),
          Column(<<"C","E","L","L">>, {F(<<"B","2">>), NaN}) >>,
       << Column(<<"r","o","w">>, {F(<<"0">>), F(<<"3">>), F(<<"-","2">>)}),
          Column(<<"c","o","l">>, {F(<<"0">>), F(<<"2">>), F(<<"-","1">>)}) >>,
       << Column(<<"t","a","b","l","e">>, {NaN, F(<<"T","1">>), F(<<" ">>)}),
          Column(<<"R","o","w">>, {F(<<"3">>), NaN}),
          Column(<<"C","o","l">>, {F(<<"2">>), F(<<"0">>)}) >>,
       << Column(<<"r">>, {F(<<"5">>)}),
          Column(<<"r","o","w">>, {NaN, F(<<"x">>), F(<<"1",".","7">>)}),
          Column(<<"c">>, {F(<<"2">>), F(<<"-","1">>)}) >>,
       << Column(<<"t","a","b","l","e">>, {F(<<"B","1">>), F(<<"T","1">>)}),
          Column(<<"n","o","t","e">>, {F(<<"x">>), F(<<"C","3">>), NaN}) >>,
       << Column(<<"r","o","w">>, {F(<<"x">>), F(<<"0">>)}),
          Column(<<"c","o","l">>, {F(<<"2">>)}),
          Column(<<"n","o","t","e">>, {F(<<"C","3">>), F(<<"x">>)}) >>,
       << Column(<<"c","e","l","l">>, {F(<<"x">>), F(<<"B","2">>)}),
          Column(<<"e","x","c","e","l","_","r","o","w">>, {F(<<"3">>)}),
          Column(<<"c","o","l","_","i","n","d","e","x">>, {F(<<"2">>), NaN}),
          Column(<<"r","e","f">>, {F(<<"C","3">>)}) >>,
       << Column(<<"S","h","e","e","t">>, {F(<<"T","1">>), NaN}),
          Column(<<"f","i","l","e">>, {F(<<"B","1">>)}),
          Column(<<"c","e","l","l">>, {F(<<"B","2">>), NaN}) >>,
       << Column(<<"n","o","t","e">>, {F(<<"x">>), F(<<"C","3">>)}),
          Column(<<"r","e","f">>, {F(<<"B","2">>), NaN}) >>,
       << Column(<<"t","a","b","l","e","_","n","a","m","e">>, {F(<<"T","1">>)}),
          Column(<<"T","a","b","l","e">>, {F(<<"B","1">>), NaN}),
          Column(<<"c","e","l","l">>, {F(<<"B","2">>)}) >>,
       << Column(<<"c","e","l","l">>, {F(<<"B","2">>)}),
          Column(<<"C","e","l","l">>, {NaN, F(<<"C","3">>)}) >> >>

\* the rows a layout allows: one field of each column
LayoutRows(lay) ==
    {r \in [1..Len(lay) -> UNION {lay[j].vals : j \in 1..Len(lay)}] :
        \A j \in 1..Len(lay) : r[j] \in lay[j].vals}

LayoutColumns(lay) == [j \in 1..Len(lay) |-> lay[j].name]

\* a table of n rows of a layout
Table(lay, rows) ==
    [st |-> "table", columns |-> LayoutColumns(lay), rows |-> rows]

Tables(lay, max) ==
    UNION {{Table(lay, rows) : rows \in [1..n -> LayoutRows(lay)]} : n \in 0..max}

\* the tables of a layout with up to max of the given rows
TablesOf(lay, given, max) ==
    UNION {{Table(lay, rows) : rows \in [1..n -> given]} : n \in 0..max}

\* a path that does not exist, and a file read_csv cannot make a table of
\* (an empty file, a directory, undecodable bytes)
AbsentFile == [st |-> "absent", columns |-> <<>>, rows |-> <<>>]
UnreadableFile == [st |-> "unreadable", columns |-> <<>>, rows |-> <<>>]

CsvFiles ==
    {AbsentFile, UnreadableFile}
        \cup UNION {Tables(lay, MaxCsvRows) : lay \in {Layouts[k] : k \in 1..Len(Layouts)}}

\* the export handler is at rest
ExportAtRest ==
    /\ stem = CHOOSE x \in Stems : TRUE
    /\ src = CHOOSE w \in Workbooks : TRUE
    /\ dest = Absent
    /\ pc = "idle"
    /\ keep_cols = <<>>
    /\ ws = <<>>
    /\ header_values = <<>>
    /\ normalized_keep = <<>>
    /\ target_row = 0
    /\ msgs = {}

\* a call of _parse_highlight_csv; the rest of the program is at rest
InitCsv ==
    /\ ExportAtRest
    /\ tok = NoToken
    /\ parsed = NotParsed
    /\ RenderAtRest
    /\ GroupAtRest
    /\ RunAtRest
    /\ UiAtRest
    /\ AgainAtRest
    /\ csv_file \in CsvFiles
    /\ csv_pc = "start"
    /\ row_i = 0
    /\ results = {}

\* path.exists(), pd.read_csv, cols and table_key_col (153-181)
OpenCsv ==
    /\ csv_pc = "start"
    /\ csv_pc' = CASE ReadOutcome(csv_file) = "empty" -> "returned"
                   [] ReadOutcome(csv_file) = "raised" -> "raised"
                   [] ReadOutcome(csv_file) = "table" -> "rows"
    /\ row_i' = IF ReadOutcome(csv_file) = "table" THEN 1 ELSE 0
    /\ results' = {}
    /\ UNCHANGED <<csv_file, exportVars, parseVars, renderVars, groupVars, runVars, uiVars, againVars>>

\* one pass of for _, row in df.iterrows() (183-232)
ScanRow ==
    /\ csv_pc = "rows"
    /\ row_i <= Len(csv_file.rows)
    /\ results' = RowStep(results, csv_file.columns, csv_file.rows[row_i])
    /\ row_i' = row_i + 1
    /\ UNCHANGED <<csv_file, csv_pc, exportVars, parseVars, renderVars, groupVars, runVars, uiVars, againVars>>

\* return results (234)
ReturnResults ==
    /\ csv_pc = "rows"
    /\ row_i > Len(csv_file.rows)
    /\ csv_pc' = "returned"
    /\ UNCHANGED <<csv_file, row_i, results, exportVars, parseVars, renderVars, groupVars, runVars, uiVars, againVars>>

NextCsv == OpenCsv \/ ScanRow \/ ReturnResults

SpecCsv == InitCsv /\ [][NextCsv]_vars

----------------------------------------------------------------------------
(* Properties of _parse_highlight_csv *)

\* the rows the loop has passed
PassedRows == IF csv_file.st = "table" THEN 1..(row_i - 1) ELSE {}

\* the field of the column named lname, in any letter case; NaN without one
FieldOf(row, lname) ==
    IF Cols(csv_file.columns, lname) = 0 THEN NaN
    ELSE row[Cols(csv_file.columns, lname)]

\* the field holds a cell address the coordinate parser accepts
IsAddressField(f) ==
    /\ f # NaN
    /\ IsAddressForm(PyStrip(f.s))
    /\ LetterCount(PyStrip(f.s)) <= 3

\* rule 1: the address column "cell", then "address"
Rule1(row) ==
    IF IsAddressField(FieldOf(row, CellName))
    THEN Coordinate(PyStrip(FieldOf(row, CellName).s))
    ELSE IF IsAddressField(FieldOf(row, AddressName))
    THEN Coordinate(PyStrip(FieldOf(row, AddressName).s))
    ELSE ParseNone

\* the aliases whose column holds a number in this row
NumberAliases(row, aliases) ==
    {i \in 1..Len(aliases) :
        FieldOf(row, aliases[i]) # NaN /\ PyFloat(FieldOf(row, aliases[i]).s).ok}

\* the numeric value of the row under the aliases: that of the first alias
\* holding a number, cut to its whole part
NumberOf(row, aliases) ==
    LET i == CHOOSE k \in NumberAliases(row, aliases) :
                 \A m \in NumberAliases(row, aliases) : k <= m
    IN  PyInt(PyFloat(FieldOf(row, aliases[i]).s).v)

\* both numeric values are present
HasNumbers(row) ==
    NumberAliases(row, RowAliases) # {} /\ NumberAliases(row, ColAliases) # {}

\* rule 2: the numeric pair, as it is when both values are >= 1 and with 1
\* added to each otherwise
Rule2(row) ==
    IF ~HasNumbers(row) THEN ParseNone
    ELSE LET r == NumberOf(row, RowAliases)
             c == NumberOf(row, ColAliases)
         IN  IF r >= 1 /\ c >= 1 THEN ParsePair(r, c) ELSE ParsePair(r + 1, c + 1)

\* the first of the columns js, in file order, whose field is an address
FirstAddressIn(row, js) ==
    LET hits == {j \in js : IsAddressField(row[j])}
    IN  IF hits = {} THEN ParseNone
        ELSE Coordinate(PyStrip(row[CHOOSE j \in hits : \A k \in hits : j <= k].s))

\* rule 3 over every column of the file
Rule3AllColumns(row) == FirstAddressIn(row, 1..Len(row))

\* the columns rules 1 and 2 and the grouping look at
ConsultedColumns ==
    {Cols(csv_file.columns, CellName), Cols(csv_file.columns, AddressName),
     TableKeyCol(csv_file.columns)}
        \cup {Cols(csv_file.columns, RowAliases[i]) : i \in 1..Len(RowAliases)}
        \cup {Cols(csv_file.columns, ColAliases[i]) : i \in 1..Len(ColAliases)}

\* rule 3 over the remaining columns only
Rule3Remaining(row) == FirstAddressIn(row, (1..Len(row)) \ ConsultedColumns)

\* the first of three outcomes that is a coordinate
FirstOf(a, b, c) == IF a # ParseNone THEN a ELSE IF b # ParseNone THEN b ELSE c

\* what a pass of the loop added
Added == results' \ results

\* the pass of the loop over the current row is being taken
PassingRow == csv_pc = "rows" /\ row_i <= Len(csv_file.rows) /\ row_i' = row_i + 1

\* C11: a row that rule 1 leaves to rule 2 and that holds both numeric
\* values r and c is stored as (r, c) when both are >= 1 and as
\* (r + 1, c + 1) when either is below 1.
C11_NumericPairNormalized ==
    \A i \in PassedRows :
        LET row == csv_file.rows[i]
            r == NumberOf(row, RowAliases)
            c == NumberOf(row, ColAliases)
        IN  (Rule1(row) = ParseNone /\ HasNumbers(row)) =>
               /\ (r >= 1 /\ c >= 1) =>
                     \E e \in results : e.row = r /\ e.col = c
               /\ (r < 1 \/ c < 1) =>
                     \E e \in results : e.row = r + 1 /\ e.col = c + 1
               /\ Len(csv_file.rows) = 1 => Cardinality(results) = 1

\* C11 witness: the raw pair (0, 0) was read and is stored as (1, 1).
C11_Witness ==
    /\ csv_pc = "returned"
    /\ csv_file.columns = << <<"r","o","w">>, <<"c","o","l">> >>
    /\ csv_file.rows = << <<F(<<"0">>), F(<<"0">>)>> >>
    /\ results = {[key |-> ALL_KEY, row |-> 1, col |-> 1]}

\* C12 (as claimed): every coordinate of the mapping has row >= 1 and
\* column >= 1.
C12_CoordinatesOneBased ==
    \A e \in results : e.row >= 1 /\ e.col >= 1

WantedKey(row) ==
    IF TableKeyCol(csv_file.columns) = 0 THEN ALL_KEY
    ELSE LET f == row[TableKeyCol(csv_file.columns)]
         IN  IF f = NaN \/ PyStrip(f.s) = <<>> THEN ALL_KEY ELSE f

\* C14 (as claimed): a row's coordinate is filed under the value of the
\* grouping column, under "__ALL__" when that value is missing or blank,
\* and under "__ALL__" when the file has no grouping column.
C14_FiledUnderGroupOrSentinel ==
    [][PassingRow =>
          \A e \in Added : e.key = WantedKey(csv_file.rows[row_i])]_vars

\* C15 (as claimed): rule 3 turns only the fields of the remaining columns
\* into a coordinate, so a row that rules 1 and 2 leave over adds the first
\* address among those fields and nothing else.
C15_ScanOnlyRemainingColumns ==
    [][PassingRow =>
          LET row == csv_file.rows[row_i]
              want == Rule3Remaining(row)
          IN  (Rule1(row) = ParseNone /\ Rule2(row) = ParseNone) =>
                 /\ want = ParseNone => results' = results
                 /\ \A e \in Added : e.row = want.row /\ e.col = want.col]_vars

----------------------------------------------------------------------------
(* The base title of an output file: file_manager.py group_outputs_by_table *)
(* and data_processor.py base_key_guess                                     *)

\* s.endswith(suf), letter case respected
EndsWith(s, suf) ==
    /\ Len(suf) <= Len(s)
    /\ SubSeq(s, Len(s) - Len(suf) + 1, Len(s)) = suf

\* s.rstrip("_")
RStripUnderscore(s) ==
    LET keep == {i \in 1..Len(s) : s[i] # "_"}
    IN  IF keep = {} THEN <<>>
        ELSE SubSeq(s, 1, CHOOSE i \in keep : \A j \in keep : j <= i)

\* Path(name).stem: the name up to its last dot, a leading dot not counted
PathStem(name) ==
    LET dots == {i \in 2..Len(name) : name[i] = "."}
    IN  IF dots = {} THEN name
        ELSE SubSeq(name, 1, (CHOOSE i \in dots : \A j \in dots : j <= i) - 1)

Xlsx == <<".","x","l","s","x">>
Csv == <<".","c","s","v">>
W_Green == <<"_","G","r","e","e","n">>
W_highlighted == <<"_","h","i","g","h","l","i","g","h","t","e","d">>
W_SigTestTable == <<"_","S","i","g","T","e","s","t","T","a","b","l","e">>
W_cells == <<"_","c","e","l","l","s">>

\* file_manager.py: OUTPUT_SUFFIXES
OUTPUT_SUFFIXES ==
    << W_Green \o W_highlighted \o Xlsx,
       W_SigTestTable \o W_Green \o W_highlighted \o Xlsx,
       W_SigTestTable \o W_highlighted \o Xlsx,
       W_highlighted \o Xlsx,
       W_Green \o W_highlighted \o W_cells \o Csv,
       W_highlighted \o W_cells \o Csv,
       W_highlighted \o Csv,
       W_SigTestTable \o Xlsx >>

\* for suf in OUTPUT_SUFFIXES: the first suffix the name ends with is cut
RECURSIVE CutKnownSuffix(_, _)
CutKnownSuffix(base, i) ==
    IF i > Len(OUTPUT_SUFFIXES) THEN base
    ELSE IF EndsWith(base, OUTPUT_SUFFIXES[i])
    THEN SubSeq(base, 1, Len(base) - Len(OUTPUT_SUFFIXES[i]))
    ELSE CutKnownSuffix(base, i + 1)

\* the alternatives of (_(Green|highlighted|SigTestTable|cells|
\* SigTestTable_Green))+$
TrailingChunks ==
    << W_Green, W_highlighted, W_SigTestTable, W_cells, W_SigTestTable \o W_Green >>

\* s[i:] is one or more of the chunks, in any letter case, up to the end
RECURSIVE IsChunkRun(_, _)
IsChunkRun(s, i) ==
    \E k \in 1..Len(TrailingChunks) :
        /\ MatchesAtCI(s, i, TrailingChunks[k])
        /\ \/ i + Len(TrailingChunks[k]) = Len(s) + 1
           \/ IsChunkRun(s, i + Len(TrailingChunks[k]))

\* re.sub of the repeated chunks: the leftmost match is removed
CutTrailingChunks(s) ==
    LET starts == {i \in 1..Len(s) : IsChunkRun(s, i)}
    IN  IF starts = {} THEN s
        ELSE SubSeq(s, 1, (CHOOSE i \in starts : \A j \in starts : i <= j) - 1)

\* the group key of a file name (file_manager.py:92-102)
GroupTitle(name) == RStripUnderscore(CutTrailingChunks(CutKnownSuffix(name, 1)))

\* the alternatives of (_Green|_highlighted|_SigTestTable|
\* _SigTestTable_Green|_highlighted_cells|_cells)$
BaseKeySuffixes ==
    << W_Green, W_highlighted, W_SigTestTable, W_SigTestTable \o W_Green,
       W_highlighted \o W_cells, W_cells >>

\* re.sub of one suffix at the end of s: the leftmost match is removed
CutOneSuffix(s) ==
    LET starts == {i \in 1..Len(s) :
                      \E k \in 1..Len(BaseKeySuffixes) :
                          /\ MatchesAtCI(s, i, BaseKeySuffixes[k])
                          /\ i + Len(BaseKeySuffixes[k]) = Len(s) + 1}
    IN  IF starts = {} THEN s
        ELSE SubSeq(s, 1, (CHOOSE i \in starts : \A j \in starts : i <= j) - 1)

\* base_key_guess of a workbook path (data_processor.py:282-283)
BaseKeyGuess(name) == CutOneSuffix(PathStem(name))

\* the words output names are built of
NameWords ==
    << W_Green, W_highlighted, W_SigTestTable, W_cells,
       <<"_","H","i","g","h","l","i","g","h","t","s">>,
       <<"_","G","R","E","E","N">> >>

NameBases == { <<"T","1">>, <<"B","1","_","S","t","a","n","c","e">> }

RECURSIVE Concat(_, _)
Concat(ws_, i) == IF i > Len(ws_) THEN <<>> ELSE ws_[i] \o Concat(ws_, i + 1)

\* workbook names: a base, up to MaxWords words, the extension .xlsx
OutputNames ==
    {b \o Concat(w, 1) \o Xlsx :
        b \in NameBases,
        w \in UNION {[1..n -> {NameWords[k] : k \in 1..Len(NameWords)}] : n \in 0..MaxWords}}

\* one workbook of highlighted_outputs/, grouped for the page and keyed for
\* the renderer
InitTitle ==
    /\ ExportAtRest
    /\ tok = NoToken
    /\ parsed = NotParsed
    /\ CsvAtRest
    /\ GroupAtRest
    /\ RunAtRest
    /\ UiAtRest
    /\ AgainAtRest
    /\ excel_name \in OutputNames
    /\ table_title = Unset
    /\ base_key_guess = Unset
    /\ render_in = NoRender
    /\ render_pc = "idle"
    /\ red_coords = {}
    /\ green_coords = {}
    /\ red_df_coords = {}
    /\ green_df_coords = {}
    /\ styles = <<>>

\* group_outputs_by_table files the workbook (file_manager.py:91-102)
GroupOutputs ==
    /\ render_pc = "idle"
    /\ excel_name # <<>>
    /\ table_title = Unset
    /\ table_title' = GroupTitle(excel_name)
    /\ UNCHANGED <<excel_name, base_key_guess, render_in, render_pc, red_coords,
                   green_coords, red_df_coords, green_df_coords, styles,
                   exportVars, parseVars, csvVars,
                   groupVars, runVars, uiVars, againVars>>

\* the renderer derives its key from the same path (data_processor.py:282-283)
GuessBaseKey ==
    /\ render_pc = "idle"
    /\ excel_name # <<>>
    /\ base_key_guess = Unset
    /\ base_key_guess' = BaseKeyGuess(excel_name)
    /\ UNCHANGED <<excel_name, table_title, render_in, render_pc, red_coords,
                   green_coords, red_df_coords, green_df_coords, styles,
                   exportVars, parseVars, csvVars,
                   groupVars, runVars, uiVars, againVars>>

NextTitle == GroupOutputs \/ GuessBaseKey

SpecTitle == InitTitle /\ [][NextTitle]_vars

\* C20 (as claimed): the key the renderer derives from a workbook's name
\* equals the title group_outputs_by_table files the workbook under.
C20_BaseTitleStable ==
    (table_title # Unset /\ base_key_guess # Unset) => base_key_guess = table_title

----------------------------------------------------------------------------
(* data_processor.py: _excel_coords_to_df_indices and                       *)
(* build_combined_highlight_html                                            *)

\* the images of the coordinates, the negative ones kept
ExcelCoordsShifted(coords, header_present) ==
    {<<(IF header_present THEN p[1] - 2 ELSE p[1] - 1), p[2] - 1>> : p \in coords}

\* _excel_coords_to_df_indices (data_processor.py:236-249)
_excel_coords_to_df_indices(coords, header_present) ==
    {q \in ExcelCoordsShifted(coords, header_present) : q[1] >= 0 /\ q[2] >= 0}

\* parsed.keys() and parsed[k], the mapping held as a set of entries
Keys(mapping) == {e.key : e \in mapping}
Group(mapping, k) == {<<e.row, e.col>> : e \in {x \in mapping : x.key = k}}
AllCoords(mapping) == {<<e.row, e.col>> : e \in mapping}

\* a choice that prefers the "__ALL__" group to the group of the key
ChooseCoordsSentinelFirst(mapping, base_key) ==
    IF ALL_KEY \in Keys(mapping) THEN Group(mapping, ALL_KEY)
    ELSE IF StrCell(base_key) \in Keys(mapping) THEN Group(mapping, StrCell(base_key))
    ELSE AllCoords(mapping)

\* the choice of coords in extract_coords_from_csv (data_processor.py:291-299)
ChooseCoords(mapping, base_key) ==
    IF StrCell(base_key) \in Keys(mapping) THEN Group(mapping, StrCell(base_key))
    ELSE IF ALL_KEY \in Keys(mapping) THEN Group(mapping, ALL_KEY)
    ELSE IF Cardinality(Keys(mapping)) = 1
    THEN Group(mapping, CHOOSE k \in Keys(mapping) : TRUE)
    ELSE AllCoords(mapping)

\* if not parsed: return
ChooseIfAny(mapping, base_key) ==
    IF mapping = {} THEN {} ELSE ChooseCoords(mapping, base_key)

\* extract_coords_from_csv into an empty collect_set (285-300)
extract_coords_from_csv(csv_path, base_key) ==
    IF csv_path.st \in {"none", "absent"} THEN {}
    ELSE ChooseIfAny(ParseHighlightCsv(csv_path), base_key)

GreenStyle == "background:#C6EFCE;"
RedStyle == "background:#FFC7CE;"

\* a styling that looks at the red set first
CellStyleRedFirst(cell, green, red) ==
    IF cell \in red THEN RedStyle
    ELSE IF cell \in green THEN GreenStyle
    ELSE ""

\* the style of one data cell (data_processor.py:331-335)
CellStyle(cell, green, red) ==
    IF cell \in green THEN GreenStyle
    ELSE IF cell \in red THEN RedStyle
    ELSE ""

\* the data cells of df_preview, by (r_idx, c_idx)
PreviewCells == (0..(PreviewRows - 1)) \X (0..(PreviewCols - 1))

\* the workbooks rendered: one whose key names a group, one whose key does not
RenderNames ==
    { <<"T","1">> \o W_highlighted \o Xlsx, <<"Q","9">> \o Xlsx }

\* the red file: a grouping column naming the workbook, another table or
\* "__ALL__", and an address column
RedLayout ==
    << Column(<<"t","a","b","l","e">>, {F(<<"T","1">>), F(<<"B","1">>), ALL_KEY}),
       Column(<<"c","e","l","l">>, {F(<<"A","2">>), F(<<"B","3">>)}) >>

RedRows ==
    { <<F(<<"T","1">>), F(<<"A","2">>)>>, <<F(<<"B","1">>), F(<<"B","3">>)>>,
      <<ALL_KEY, F(<<"B","3">>)>> }

\* the green file: numeric columns, with zero-based and negative values
GreenLayout ==
    << Column(<<"r","o","w">>, {F(<<"2">>), F(<<"0">>)}),
       Column(<<"c","o","l">>, {F(<<"1">>), F(<<"-","1">>)}) >>

GreenRows ==
    { <<F(<<"2">>), F(<<"1">>)>>, <<F(<<"2">>), F(<<"-","1">>)>>,
      <<F(<<"0">>), F(<<"1">>)>> }

RedFiles ==
    {NoCsv, AbsentFile, UnreadableFile} \cup TablesOf(RedLayout, RedRows, MaxCsvRows)
GreenFiles == {NoCsv} \cup TablesOf(GreenLayout, GreenRows, MaxCsvRows)

\* the arguments of a call; a workbook that is missing or unreadable is
\* tried without companion files
RenderInputs ==
    {[excel |-> "ok", red |-> r, green |-> g, header_present |-> h] :
        r \in RedFiles, g \in GreenFiles, h \in BOOLEAN}
    \cup {[excel |-> x, red |-> NoCsv, green |-> NoCsv, header_present |-> TRUE] :
             x \in {"absent", "unreadable"}}

\* a call of build_combined_highlight_html
InitRender ==
    /\ ExportAtRest
    /\ tok = NoToken
    /\ parsed = NotParsed
    /\ CsvAtRest
    /\ GroupAtRest
    /\ RunAtRest
    /\ UiAtRest
    /\ AgainAtRest
    /\ excel_name \in RenderNames
    /\ table_title = Unset
    /\ base_key_guess = Unset
    /\ render_in \in RenderInputs
    /\ render_pc = "start"
    /\ red_coords = {}
    /\ green_coords = {}
    /\ red_df_coords = {}
    /\ green_df_coords = {}
    /\ styles = <<>>

\* p.exists(), pd.read_excel and base_key_guess (262-283)
ReadExcel ==
    /\ render_pc = "start"
    /\ render_pc' = CASE render_in.excel = "absent" -> "returned none"
                      [] render_in.excel = "unreadable" -> "returned error"
                      [] render_in.excel = "ok" -> "read"
    /\ base_key_guess' =
          IF render_in.excel = "ok" THEN BaseKeyGuess(excel_name) ELSE base_key_guess
    /\ UNCHANGED <<excel_name, table_title, render_in, red_coords, green_coords,
                   red_df_coords, green_df_coords, styles,
                   exportVars, parseVars, csvVars,
                   groupVars, runVars, uiVars, againVars>>

\* the two calls of extract_coords_from_csv (302-303)
ExtractCoords ==
    /\ render_pc = "read"
    /\ red_coords' = extract_coords_from_csv(render_in.red, base_key_guess)
    /\ green_coords' = extract_coords_from_csv(render_in.green, base_key_guess)
    /\ render_pc' = "extracted"
    /\ UNCHANGED <<excel_name, table_title, base_key_guess, render_in,
                   red_df_coords, green_df_coords, styles,
                   exportVars, parseVars, csvVars,
                   groupVars, runVars, uiVars, againVars>>

\* the two calls of _excel_coords_to_df_indices (305-306)
MapCoords ==
    /\ render_pc = "extracted"
    /\ green_df_coords' =
          _excel_coords_to_df_indices(green_coords, render_in.header_present)
    /\ red_df_coords' =
          _excel_coords_to_df_indices(red_coords, render_in.header_present)
    /\ render_pc' = "mapped"
    /\ UNCHANGED <<excel_name, table_title, base_key_guess, render_in,
                   red_coords, green_coords, styles,
                   exportVars, parseVars, csvVars,
                   groupVars, runVars, uiVars, againVars>>

\* the loop over the data cells (325-339)
RenderCells ==
    /\ render_pc = "mapped"
    /\ styles' = [cell \in PreviewCells |->
                     CellStyle(cell, green_df_coords, red_df_coords)]
    /\ render_pc' = "rendered"
    /\ UNCHANGED <<excel_name, table_title, base_key_guess, render_in,
                   red_coords, green_coords, red_df_coords, green_df_coords,
                   exportVars, parseVars, csvVars,
                   groupVars, runVars, uiVars, againVars>>

NextRender == ReadExcel \/ ExtractCoords \/ MapCoords \/ RenderCells

SpecRender == InitRender /\ [][NextRender]_vars

----------------------------------------------------------------------------
(* Properties of the coordinate mapping and of the renderer *)

\* rows of the sheet above the first grid row
RowsAbove == IF render_in.header_present THEN 2 ELSE 1

\* df is the image of coords: (row, col) goes to (row - RowsAbove, col - 1),
\* present exactly when both are >= 0
IsGridImage(df, coords) ==
    /\ \A p \in coords :
          <<p[1] - RowsAbove, p[2] - 1>> \in df
              <=> (p[1] - RowsAbove >= 0 /\ p[2] - 1 >= 0)
    /\ \A q \in df : <<q[1] + RowsAbove, q[2] + 1>> \in coords

Mapped == render_pc \in {"mapped", "rendered"}

\* C17: a coordinate (row, col) maps to (row - 2, col - 1) with a header and
\* to (row - 1, col - 1) without, and the output holds exactly the images
\* with both components >= 0: (2, 1) with a header and (1, 1) without map
\* to (0, 0), and a coordinate on the header row or with column < 1 is left
\* out.
C17_GridImageOfCoordinates ==
    Mapped =>
        /\ IsGridImage(green_df_coords, green_coords)
        /\ IsGridImage(red_df_coords, red_coords)
        /\ \A df \in {green_df_coords, red_df_coords} :
              \A q \in df : q[1] >= 0 /\ q[2] >= 0
        /\ \A coords \in {green_coords, red_coords} :
              /\ (render_in.header_present /\ <<2, 1>> \in coords) =>
                    <<0, 0>> \in _excel_coords_to_df_indices(coords, TRUE)
              /\ (~render_in.header_present /\ <<1, 1>> \in coords) =>
                    <<0, 0>> \in _excel_coords_to_df_indices(coords, FALSE)

\* C17 witness: with a header, (2, 1) went to (0, 0) while (3, 0), of column
\* 0, and (1, 2), of the header row, were left out.
C17_Witness ==
    /\ Mapped
    /\ render_in.header_present
    /\ red_coords = {<<2, 1>>}
    /\ red_df_coords = {<<0, 0>>}
    /\ green_coords = {<<3, 0>>, <<1, 2>>}
    /\ green_df_coords = {}

\* the outcome of parsing a companion file; nothing for no file
ParsedOf(csv_path) ==
    IF csv_path.st = "table" THEN ParseHighlightCsv(csv_path) ELSE {}

\* the coordinates to use by the four rules, in their order
Resolved(mapping, base_key) ==
    LET exact == {e \in mapping : e.key = StrCell(base_key)}
        sentinel == {e \in mapping : e.key = ALL_KEY}
    IN  IF exact # {} THEN {<<e.row, e.col>> : e \in exact}
        ELSE IF sentinel # {} THEN {<<e.row, e.col>> : e \in sentinel}
        ELSE {<<e.row, e.col>> : e \in mapping}

Extracted == render_pc \in {"extracted", "mapped", "rendered"}

\* C18: the coordinates taken from a companion file are those of the group
\* of the workbook's base key, else of "__ALL__", else of the only group,
\* else of all groups together; a file that is missing or gives an empty
\* mapping contributes nothing.
C18_GroupResolution ==
    Extracted =>
        /\ red_coords = Resolved(ParsedOf(render_in.red), base_key_guess)
        /\ green_coords = Resolved(ParsedOf(render_in.green), base_key_guess)
        /\ render_in.red.st # "table" => red_coords = {}
        /\ \A k \in Keys(ParsedOf(render_in.red)) :
              k = StrCell(base_key_guess) =>
                 red_coords = Group(ParsedOf(render_in.red), k)

\* C18 witness: the file holds a group for the workbook and an "__ALL__"
\* group, and only the workbook's group was taken.
C18_Witness ==
    /\ Extracted
    /\ base_key_guess = <<"T","1">>
    /\ Keys(ParsedOf(render_in.red)) = {F(<<"T","1">>), ALL_KEY}
    /\ red_coords = {<<2, 1>>}
    /\ Group(ParsedOf(render_in.red), ALL_KEY) = {<<3, 2>>}

\* C19: each data cell has one style: green iff its index is in the green
\* set, red iff it is in the red set and not in the green set, none
\* otherwise.
C19_GreenWins ==
    render_pc = "rendered" =>
        /\ DOMAIN styles = PreviewCells
        /\ \A cell \in PreviewCells :
              /\ styles[cell] \in {GreenStyle, RedStyle, ""}
              /\ styles[cell] = GreenStyle <=> cell \in green_df_coords
              /\ styles[cell] = RedStyle <=>
                    (cell \in red_df_coords /\ cell \notin green_df_coords)

\* C19 witness: grid cell (0, 0) is in both sets and is green, and a cell
\* of the red set alone is red.
C19_Witness ==
    /\ render_pc = "rendered"
    /\ <<0, 0>> \in green_df_coords \cap red_df_coords
    /\ styles[<<0, 0>>] = GreenStyle
    /\ \E cell \in PreviewCells : styles[cell] = RedStyle

----------------------------------------------------------------------------
(* file_manager.py: group_outputs_by_table over the output directory, and   *)
(* the page's choice of the tables it offers (app.py:207-223)               *)

W_Highlights == <<"_","H","i","g","h","l","i","g","h","t","s">>
W_sigGreen == <<"_","s","i","g","G","r","e","e","n">>

\* the known output suffixes, as a set
KnownSuffixes == {OUTPUT_SUFFIXES[k] : k \in 1..Len(OUTPUT_SUFFIXES)}

\* the workbook the page offers for export
HighlightsWorkbook == W_Highlights \o Xlsx

\* the endings of the notebook's outputs: the known suffixes, the workbook
\* offered for export and the green cells mask (app.py:202-204, 219)
DirEndings ==
    KnownSuffixes \cup {HighlightsWorkbook,
                        W_sigGreen \o W_highlighted \o W_cells \o Csv}

\* the file names a directory is drawn from
DirNames == {b \o e : b \in NameBases, e \in DirEndings}

\* directories of up to MaxFiles files
Directories ==
    UNION {{{f[i] : i \in 1..n} : f \in [1..n -> DirNames]} : n \in 0..MaxFiles}

\* groups[base].append(f) for every file, each list then sorted by name
\* (file_manager.py:91-105); a sorted list of distinct names is held as
\* the set of its names
FilesUnder(files, title) == {f \in files : GroupTitle(f) = title}

group_outputs_by_table(files) ==
    [t \in {GroupTitle(f) : f \in files} |-> FilesUnder(files, t)]

\* "_highlights" in f.name.lower() and "sigtesttable" not in f.name.lower()
ContainsCI(s, p) == \E i \in 1..Len(s) : MatchesAtCI(s, i, p)

IsHighlightsFile(name) ==
    /\ ContainsCI(name, W_Highlights)
    /\ ~ContainsCI(name, <<"s","i","g","t","e","s","t","t","a","b","l","e">>)

\* all_table_titles (app.py:215-223), before sorting
AllTableTitles(g) ==
    {t \in DOMAIN g : t # <<>> /\ \E f \in g[t] : IsHighlightsFile(f)}

InitGroup ==
    /\ ExportAtRest
    /\ tok = NoToken
    /\ parsed = NotParsed
    /\ CsvAtRest
    /\ RenderAtRest
    /\ RunAtRest
    /\ UiAtRest
    /\ AgainAtRest
    /\ out_files \in Directories
    /\ groups = NotGrouped

\* groups = group_outputs_by_table(OUTPUT_DIR) (app.py:207)
GroupOutputsByTable ==
    /\ groups = NotGrouped
    /\ groups' = group_outputs_by_table(out_files)
    /\ UNCHANGED <<out_files, exportVars, parseVars, csvVars, renderVars,
                   runVars, uiVars, againVars>>

NextGroup == GroupOutputsByTable

SpecGroup == InitGroup /\ [][NextGroup]_vars

\* every file appears in exactly one group
IsPartition ==
    \A f \in out_files : Cardinality({t \in DOMAIN groups : f \in groups[t]}) = 1

\* the files a base name and the endings e give are filed under the base
FiledUnderBase(endings) ==
    \A b \in NameBases, e \in endings :
        (b \o e) \in out_files => (b \in DOMAIN groups /\ (b \o e) \in groups[b])

\* what holds of the grouping: a partition, and the known suffixes filed
\* under their base
GroupingOfKnownSuffixes ==
    groups # NotGrouped => (IsPartition /\ FiledUnderBase(KnownSuffixes))

\* every table the page offers is titled by the full name of its workbook
OfferedTitlesAreFileNames ==
    groups # NotGrouped =>
        \A t \in AllTableTitles(groups) : t \in out_files /\ groups[t] = {t}

\* C21 (as claimed): group_outputs_by_table partitions the directory, and a
\* base name followed by a known suffix, or by the ending of the workbook
\* offered for export, is filed under the base name.
C21_GroupedUnderBaseName ==
    groups # NotGrouped =>
        (IsPartition /\ FiledUnderBase(KnownSuffixes \cup {HighlightsWorkbook}))

----------------------------------------------------------------------------
(* notebook_runner.py: run_notebook, run_with_papermill, run_with_nbconvert *)
(* A progress fraction is held in thousandths (Scale), as the floats are.   *)

\* pct / 100.0
PctFraction(pct) == (pct * Scale) \div 100

\* one call on_progress(frac, msg); by tells which line made it
Report(frac, by) == [frac |-> frac, by |-> by]

\* if on_progress is not None: on_progress(...)
Reported(prog, tracked, reports) == IF tracked THEN prog \o reports ELSE prog

\* importlib.util.find_spec("papermill") is not None (notebook_runner.py:117)
ChosenExecutor(papermill) == IF papermill THEN "papermill" ELSE "nbconvert"

\* the reports made before the executor's call: 0.01 by run_notebook
\* (notebook_runner.py:119, 123), 0.05 by run_with_nbconvert (line 83)
StartReports(chosen) ==
    IF chosen = "papermill"
    THEN <<Report(PctFraction(1), "start")>>
    ELSE <<Report(PctFraction(1), "start"), Report(PctFraction(5), "nbconvert")>>

\* the percentages of the records "Executing: N%" the handler meets
LogPercents == {0, 50, 100}

\* what the executors raise: subprocess.check_call raises CalledProcessError
\* or OSError, pm.execute_notebook raises PapermillExecutionError
Raises(chosen) ==
    IF chosen = "papermill" THEN {"PapermillExecutionError"}
    ELSE {"CalledProcessError", "OSError"}

\* all three are subclasses of Exception
IsException(exc) == exc \in {"CalledProcessError", "OSError", "PapermillExecutionError"}

\* a handler with the first except clause only
ExceptClauseSubprocessOnly(exc) ==
    IF exc = "CalledProcessError" THEN "Subprocess error" ELSE "propagates"

\* the except clauses of run_notebook (notebook_runner.py:128-131)
ExceptClause(exc) ==
    IF exc = "CalledProcessError" THEN "Subprocess error"
    ELSE IF IsException(exc) THEN "Unexpected error"
    ELSE "propagates"

\* the message of a finished executor (notebook_runner.py:67, 97)
FinishedMessage(chosen) ==
    IF chosen = "papermill" THEN "Papermill wrote executed notebook"
    ELSE "nbconvert executed notebook in place"

\* pm_logger.addHandler(handler), only when on_progress is given
\* (notebook_runner.py:25, 45)
Attached(handlers, chosen, tracked) ==
    IF chosen = "papermill" /\ tracked THEN handlers + 1 ELSE handlers

\* a removal placed after the call, without finally
DetachedUnlessRaised(handlers, chosen, tracked, raised) ==
    IF chosen = "papermill" /\ tracked /\ ~raised THEN handlers - 1 ELSE handlers

\* finally: pm_logger.removeHandler(handler) (notebook_runner.py:53-54);
\* raised tells whether pm.execute_notebook raised
Detached(handlers, chosen, tracked, raised) ==
    IF chosen = "papermill" /\ tracked THEN handlers - 1 ELSE handlers

RunInputs == [papermill : BOOLEAN, on_progress : BOOLEAN]

InitRun ==
    /\ ExportAtRest
    /\ tok = NoToken
    /\ parsed = NotParsed
    /\ CsvAtRest
    /\ RenderAtRest
    /\ GroupAtRest
    /\ UiAtRest
    /\ AgainAtRest
    /\ run_in \in RunInputs
    /\ run_pc = "called"
    /\ progress = <<>>
    /\ pm_handlers = 0
    /\ executed = NoExecutor
    /\ run_result = NoResult

\* run_notebook up to the executor's call: the output directory, which
\* app.py:30 has created, is made sure of; the executor is chosen; 0.01 is
\* reported; run_with_papermill attaches its handler, run_with_nbconvert
\* reports 0.05 (notebook_runner.py:110-124, 15-46, 78-91)
StartExecutor ==
    /\ run_pc = "called"
    /\ run_pc' = "executing"
    /\ executed' = [chosen |-> ChosenExecutor(run_in.papermill), outcome |-> "running"]
    /\ progress' = Reported(progress, run_in.on_progress, StartReports(executed'.chosen))
    /\ pm_handlers' = Attached(pm_handlers, executed'.chosen, run_in.on_progress)
    /\ UNCHANGED <<run_in, run_result, exportVars, parseVars, csvVars,
                   renderVars, groupVars, uiVars, againVars>>

\* a record "Executing: N%" reaches the attached handler, which forwards
\* N / 100.0 (notebook_runner.py:29-35)
EmitLogRecord ==
    /\ run_pc = "executing"
    /\ pm_handlers > 0
    /\ Len(progress) <= MaxRecords
    /\ \E pct \in LogPercents :
           progress' = Append(progress, Report(PctFraction(pct), "log"))
    /\ UNCHANGED <<run_in, run_pc, pm_handlers, executed, run_result,
                   exportVars, parseVars, csvVars, renderVars, groupVars, uiVars, againVars>>

\* the executor finishes: the handler is removed, 1.0 is reported and
\* (True, msg) returned (notebook_runner.py:53-67, 94-97, 126)
ExecutorReturns ==
    /\ run_pc = "executing"
    /\ run_pc' = "returned"
    /\ executed' = [executed EXCEPT !.outcome = "ok"]
    /\ pm_handlers' = Detached(pm_handlers, executed.chosen, run_in.on_progress, FALSE)
    /\ progress' = Reported(progress, run_in.on_progress, <<Report(Scale, "finished")>>)
    /\ run_result' = [success |-> TRUE, msg |-> FinishedMessage(executed.chosen)]
    /\ UNCHANGED <<run_in, exportVars, parseVars, csvVars, renderVars,
                   groupVars, uiVars, againVars>>

\* the executor raises: the handler is removed by finally, and the except
\* clauses turn the exception into (False, msg), or it propagates
\* (notebook_runner.py:53-54, 128-131)
ExecutorRaises ==
    /\ run_pc = "executing"
    /\ \E exc \in Raises(executed.chosen) :
           /\ executed' = [executed EXCEPT !.outcome = exc]
           /\ run_pc' = IF ExceptClause(exc) = "propagates" THEN "raised" ELSE "returned"
           /\ run_result' = IF ExceptClause(exc) = "propagates" THEN NoResult
                            ELSE [success |-> FALSE, msg |-> ExceptClause(exc)]
    /\ pm_handlers' = Detached(pm_handlers, executed.chosen, run_in.on_progress, TRUE)
    /\ UNCHANGED <<run_in, progress, exportVars, parseVars, csvVars,
                   renderVars, groupVars, uiVars, againVars>>

NextRun == StartExecutor \/ EmitLogRecord \/ ExecutorReturns \/ ExecutorRaises

SpecRun == InitRun /\ [][NextRun]_vars

----------------------------------------------------------------------------
(* Properties of run_notebook *)

\* the fractions reported, in order
Fractions == [i \in 1..Len(progress) |-> progress[i].frac]

\* positions of the reports run_notebook and the executors make themselves
OwnReports == {i \in 1..Len(progress) : progress[i].by # "log"}

\* C22: run_notebook leaves the executor's call only by returning a
\* (success, message) pair, never by an exception; success is True iff the
\* executor finished without raising; the executor is papermill iff papermill
\* is installed, and it is the only executor of the call, a failed papermill
\* run included.
C22_ReturnsPairNoRetry ==
    [][(run_pc = "executing" /\ run_pc' # "executing") =>
          /\ run_pc' = "returned"
          /\ run_result'.msg # "none"
          /\ run_result'.success <=> (executed'.outcome = "ok")
          /\ (executed.chosen = "papermill") <=> run_in.papermill
          /\ executed'.chosen = executed.chosen
          /\ \A i \in 1..Len(progress') :
                 progress'[i].by = "nbconvert" => executed.chosen = "nbconvert"]_vars

\* a failed papermill run has returned (False, "Unexpected error")
C22_Witness ==
    /\ run_pc = "returned"
    /\ executed = [chosen |-> "papermill", outcome |-> "PapermillExecutionError"]
    /\ run_result = [success |-> FALSE, msg |-> "Unexpected error"]

----------------------------------------------------------------------------
(* app.py: the page as a sequence of script runs.  Every UI event makes     *)
(* Streamlit run the script from the top once; st.session_state and the     *)
(* widgets' values persist between the runs of a session (app.py:101-192).  *)

\* wipe_output_dir over a directory of n items, removed of which could be
\* removed: the items left and the message shown (app.py:36-56, 105-117)
WipeLeaves(n, removed) == n - removed

WipeMessage(removed) ==
    IF removed = 0 THEN "Nothing to clear" ELSE "Cleared"

\* a script that sets the key to None on every run
SessionResetEachRun(sp) == "None"

\* if "uploaded_saved_path" not in st.session_state: ... = None
\* (app.py:127-128)
SessionAfterInit(sp) == IF sp = "no key" THEN "None" ELSE sp

\* if uploaded is not None: the file is saved and its path recorded
\* (app.py:130-133); saved tells whether save_uploaded_file returned
SessionAfterUpload(sp, uploaded, saved) ==
    IF uploaded # "None" /\ saved THEN "saved" ELSE SessionAfterInit(sp)

\* the script ends at line 132 when save_uploaded_file raises
SaveRaised(uploaded, saved) == uploaded # "None" /\ ~saved

\* if not uploaded_saved_path (app.py:150)
Falsy(sp) == sp \in {"None", "no key"}

\* the messages of lines 130-192 for a run of the script
RunMessages(sp, uploaded, saved, confirm_run, success) ==
    (IF uploaded # "None" /\ saved THEN {"Saved uploaded file"} ELSE {})
    \cup (IF SaveRaised(uploaded, saved) THEN {"exception"}
          ELSE IF ~confirm_run THEN {}
          ELSE IF Falsy(sp) THEN {"No uploaded file found"}
          ELSE IF success THEN {"Notebook finished successfully"}
          ELSE {"Notebook failed"})

\* run_notebook is called (app.py:148-181)
CallsRunNotebook(sp, uploaded, saved, confirm_run) ==
    confirm_run /\ ~SaveRaised(uploaded, saved) /\ ~Falsy(sp)

DirCounts == [outputs : 0..MaxItems, exports : 0..MaxItems]

\* a browser session opens on some content of the two directories
InitUi ==
    /\ ExportAtRest
    /\ tok = NoToken
    /\ parsed = NotParsed
    /\ CsvAtRest
    /\ RenderAtRest
    /\ GroupAtRest
    /\ RunAtRest
    /\ AgainAtRest
    /\ session_path = "no key"
    /\ uploader = "None"
    /\ dirs \in DirCounts
    /\ run_calls = 0
    /\ ui_msgs = {}

\* one run of the script with the uploader holding up and, at most, the
\* button clicked pressed: lines 104-117, then 125-137, then 146-192
ScriptRun(clicked, up) ==
    \E saved, success \in BOOLEAN :
        LET sp == SessionAfterUpload(session_path, up, saved)
            calls == CallsRunNotebook(sp, up, saved, clicked = "confirm")
        IN  /\ uploader' = up
            /\ session_path' = sp
            /\ run_calls' = IF calls THEN run_calls + 1 ELSE run_calls
            /\ \E removed \in 0..MaxItems, written \in 0..MaxItems :
                   /\ removed <= (IF clicked = "clear outputs" THEN dirs.outputs
                                  ELSE IF clicked = "clear exports" THEN dirs.exports
                                  ELSE 0)
                   /\ written >= (IF clicked = "clear outputs"
                                  THEN WipeLeaves(dirs.outputs, removed)
                                  ELSE dirs.outputs)
                   /\ calls \/ written = (IF clicked = "clear outputs"
                                          THEN WipeLeaves(dirs.outputs, removed)
                                          ELSE dirs.outputs)
                   /\ dirs' = [outputs |-> written,
                               exports |-> IF clicked = "clear exports"
                                           THEN WipeLeaves(dirs.exports, removed)
                                           ELSE dirs.exports]
                   /\ ui_msgs' =
                          (IF clicked \in {"clear outputs", "clear exports"}
                           THEN {WipeMessage(removed)} ELSE {})
                          \cup RunMessages(sp, up, saved, clicked = "confirm", success)

\* the page is opened, or another widget makes the script run again
ScriptRerun ==
    /\ ScriptRun("none", uploader)
    /\ UNCHANGED <<exportVars, parseVars, csvVars, renderVars, groupVars, runVars,
                   againVars>>

\* the user hands a file to the uploader
Upload ==
    /\ session_path # "no key"
    /\ ScriptRun("none", "file")
    /\ UNCHANGED <<exportVars, parseVars, csvVars, renderVars, groupVars, runVars,
                   againVars>>

\* the user removes the file from the uploader
RemoveUpload ==
    /\ session_path # "no key"
    /\ uploader = "file"
    /\ ScriptRun("none", "None")
    /\ UNCHANGED <<exportVars, parseVars, csvVars, renderVars, groupVars, runVars,
                   againVars>>

\* "Clear highlighted outputs" (app.py:104-109)
ClearOutputs ==
    /\ session_path # "no key"
    /\ ScriptRun("clear outputs", uploader)
    /\ UNCHANGED <<exportVars, parseVars, csvVars, renderVars, groupVars, runVars,
                   againVars>>

\* "Clear export files" (app.py:112-117)
ClearExports ==
    /\ session_path # "no key"
    /\ ScriptRun("clear exports", uploader)
    /\ UNCHANGED <<exportVars, parseVars, csvVars, renderVars, groupVars, runVars,
                   againVars>>

\* "Confirm & Run notebook" (app.py:146-192)
ConfirmRun ==
    /\ session_path # "no key"
    /\ run_calls < MaxRuns
    /\ ScriptRun("confirm", uploader)
    /\ UNCHANGED <<exportVars, parseVars, csvVars, renderVars, groupVars, runVars,
                   againVars>>

NextUi == ScriptRerun \/ Upload \/ RemoveUpload \/ ClearOutputs \/ ClearExports \/ ConfirmRun

SpecUi == InitUi /\ [][NextUi]_vars

\* C25: run_notebook is called only in a script run that has a saved upload
\* path recorded in the session; a confirm-run without one calls nothing and,
\* where the script reaches the guard, shows the error; a recorded path
\* stays recorded in every later run.
C25_RunOnlyWithRecordedUpload ==
    [][/\ run_calls' # run_calls => session_path' = "saved"
       /\ (ConfirmRun /\ session_path' # "saved") =>
              /\ run_calls' = run_calls
              /\ "exception" \in ui_msgs' \/ "No uploaded file found" \in ui_msgs'
       /\ session_path = "saved" => session_path' = "saved"]_vars

\* the notebook has run from the recorded path after the file was removed
\* from the uploader
C25_Witness ==
    /\ session_path = "saved"
    /\ uploader = "None"
    /\ run_calls > 0
    /\ "Notebook finished successfully" \in ui_msgs

----------------------------------------------------------------------------
(* The export handler run again and again on one workbook (app.py:398-535); *)
(* first_export remembers what the first saved export wrote.                *)

\* the workbooks exported repeatedly: two columns, every header row
AgainWorkbooks == HeaderFamily(2)

InitAgain ==
    /\ stem \in Stems
    /\ src \in AgainWorkbooks
    /\ dest = Absent
    /\ pc = "idle"
    /\ keep_cols = <<>>
    /\ ws = <<>>
    /\ header_values = <<>>
    /\ normalized_keep = <<>>
    /\ target_row = 0
    /\ msgs = {}
    /\ tok = NoToken
    /\ parsed = NotParsed
    /\ CsvAtRest
    /\ RenderAtRest
    /\ GroupAtRest
    /\ RunAtRest
    /\ UiAtRest
    /\ AgainAtRest

\* the script runs again after the handler has ended (the button of the next
\* export is pressed in a new run): the handler's values are gone, the files
\* stay, and a saved export is counted
RerunAfterExport ==
    /\ pc \in Ended
    /\ exports_run < MaxExports
    /\ pc' = "idle"
    /\ keep_cols' = <<>>
    /\ ws' = <<>>
    /\ header_values' = <<>>
    /\ normalized_keep' = <<>>
    /\ target_row' = 0
    /\ msgs' = {}
    /\ exports_run' = IF pc = "saved" THEN exports_run + 1 ELSE exports_run
    /\ first_export' = IF pc = "saved" /\ first_export = NoExport
                       THEN [keep |-> keep_cols, grid |-> dest.grid]
                       ELSE first_export
    /\ UNCHANGED <<stem, src, dest, tok, parsed, csvVars, renderVars, groupVars,
                   runVars, uiVars>>

NextAgain ==
    \/ ClickSave
    \/ LoadAndTitle
    \/ ReadHeader
    \/ AbortEmptyHeader
    \/ DeleteColumns
    \/ RoundBaseRow
    \/ SaveWorkbook
    \/ ClearExport
    \/ RerunAfterExport

SpecAgain == InitAgain /\ [][NextAgain]_vars

\* C24: no step of an export changes the source workbook; the copy an export
\* works on is the source; a saved export has one row more than the source,
\* the title in A1 and cells of the source's header in row 2; and it equals
\* what the first export of the session saved for the same selection,
\* whatever was exported, cleared or left behind in between.
C24_ExportFromFreshCopy ==
    [][/\ src' = src
       /\ (pc = "idle" /\ pc' = "copied") => dest'.grid = src
       /\ (pc = "rounded" /\ pc' = "saved") =>
              /\ Len(dest'.grid) = Len(src) + 1
              /\ dest'.grid[1][1] = StrCell(clean_title(stem))
              /\ dest'.grid[header_row][1] = src[1][1]
              /\ Range(dest'.grid[header_row]) \subseteq Range(src[1])
              /\ (first_export # NoExport /\ first_export.keep = keep_cols) =>
                     dest'.grid = first_export.grid]_vars

\* a third export has been saved, with the selection of the first, over the
\* file the second left
C24_Witness ==
    /\ pc = "saved"
    /\ exports_run = MaxExports
    /\ first_export # NoExport
    /\ first_export.keep = keep_cols
    /\ dest.grid = first_export.grid
    /\ Len(dest.grid) = Len(src) + 1

----------------------------------------------------------------------------
(* The count of the success message (app.py:519) *)

\* len(normalized_keep), the number the message reports as kept
ReportedKept == Len(normalized_keep)

\* C26 (as claimed): after a successful export the number of columns the
\* success message reports as kept equals the number of columns of the saved
\* workbook.
C26_ReportedCountIsColumnCount ==
    pc = "saved" => ReportedKept = MaxColumn(dest.grid)

====
